---------------------------- MODULE Spec2Model ----------------------------
(***************************************************************************)
(* A model of the mag-ecs entity-component-system store: the SparseSet     *)
(* container (src/src/util/sparse-set.ts), the World that owns entity      *)
(* signatures, the free list of entity ids and the query cache             *)
(* (src/unnamed/part_018, first World), the Component registry that owns   *)
(* one SparseSet per component type (src/src/core/component.ts), the       *)
(* QueryDefinition predicate (src/src/core/query-definition.ts) and the    *)
(* World with create / add / run (src/src/core/world.ts).                  *)
(*                                                                         *)
(* JavaScript arrays are sequences whose entry k+1 is the array's element  *)
(* k; a hole and the value undefined are both Undef.  A signature Bitset   *)
(* is the set of the bit indices that are set.                             *)
(***************************************************************************)
EXTENDS Integers, Sequences, FiniteSets, TLC

\* ------------------------------------------------------------------ bounds

\* SparseSet indices of the SparseSet specification are 0 .. MaxIndex.
MaxIndex == 2

\* Entity ids of the World specification are 0 .. MaxEntities - 1.
MaxEntities == 2

\* The free list of the World specification holds at most MaxCemetery ids.
MaxCemetery == 2

\* The number of World calls of a run.
MaxCalls == 5

\* The calls made on the world.ts World in a run.
MaxRunCalls == 7

\* The create and add calls among them: the last call is left to a run, which
\* observes what the calls before it built.
MaxRunChanges == MaxRunCalls - 1

\* INITIAL_SIZE of the world.ts World, scaled down.
InitialSize == 2

\* JavaScript's undefined (and an array hole): no index, slot or value is negative.
Undef == -1

Indices == 0 .. MaxIndex

\* The values stored in a SparseSet.
Values == {1, 2}

\* JavaScript's null: distinct from undefined and from every index and value.
JsNull == -2

\* The ids of the registered component types: the constructor assigns
\* ++_idCounter, so the first type has id 1 and the second id 2.
TypeA == 1

TypeB == 2

Types == {TypeA, TypeB}

EntityIds == 0 .. MaxEntities - 1

VARIABLES
    sset,           \* SparseSet: [sparse, denseValue, denseIndex]
    present,        \* what the caller has put in and not taken out: index -> value or Undef
    reAdded,        \* TRUE once add was called for an index that was added before
    ssLast,         \* the last SparseSet call: [op, index, ok, val]
    entities,       \* World._entities: array of signature | null, index = entity id
    cemetery,       \* World._cemetery: array of unused entity ids
    stores,         \* Component._instances of each registered type: type id -> SparseSet
    queryCache,     \* World._queryCache: query -> array of entity ids
    queryCacheDirty,\* World._queryCacheDirty: query -> "absent" | "dirty" | "clean"
    wLast,          \* the last World call and what it returned
    calls,          \* the number of World calls made
    rEntities,      \* world.ts World._entities
    rCemetery,      \* world.ts World._entityCemetery
    rStores,        \* world.ts: the store of each Component
    rQueryCache,    \* world.ts World._queryCache
    rDirtyQueries,  \* world.ts World._dirtyQueries
    rLast,          \* the last call on the world.ts World and what it did
    rCalls,         \* the number of calls made on the world.ts World
    bEntities,      \* World with base entities: _entities (instance signatures)
    bCompound,      \* World with base entities: _compoundEntities
    bInheritance,   \* World with base entities: _inheritance
    bStatic,        \* World with base entities: _staticEntities
    bCemetery,      \* World with base entities: _cemetery
    bStores,        \* World with base entities: the store of each component type
    bLast,          \* the last call on the World with base entities
    bCalls,         \* the number of calls made on the World with base entities
    qb,             \* a QueryDefinition under construction: its filters and paramTypes
    qbLast,         \* the last builder call on it and whether it threw
    b4,             \* bit-packed Bitset instances: name -> [bits, size, byteLength, setCount]
    b4Last,         \* the last call on a bit-packed Bitset and what it returned
    b4Calls,        \* the number of calls made on the bit-packed Bitsets
    b6,             \* byte-per-flag Bitset instances: name -> [flags, size, byteLength, setCount]
    b6Last,         \* the last call on a byte-per-flag Bitset and what it returned
    memArray,       \* pooled Bitset._memArray: the positions of its 1 bits
    memSize,        \* pooled Bitset._memSize: the number of memory slots handed out
    setFlagCount,   \* pooled Bitset._setFlagCount of the instance at each memIndex
    p5Last,         \* the last call on a pooled Bitset and what it returned
    p5Calls,        \* the number of calls made on the pooled Bitsets
    instancePool,   \* pooled Bitset._instancePool: the memIndex of each returned instance
    statics,        \* Component._statics: type descriptor -> Component
    idMap,          \* Component._idMap: type descriptor -> id
    idCounter,      \* Component._idCounter
    created,        \* the number of Component instances constructed so far
    regLast,        \* the last call on the Component registry and what it returned
    vSet,           \* a SparseSet
    vBit,           \* a map-backed SparseBitSet given the same calls
    vTag,           \* a SparseTagSet given the same calls
    vLast,          \* the last call on the three sets and what each returned
    sbs,            \* a Bitset-backed SparseBitSet: [sparse, dense]
    sbsPresent,     \* what its caller has put in and not taken out
    sbsAdded,       \* the indices its caller has ever added
    sbsReAdded,     \* TRUE once add was called for an index added before
    sbsLast,        \* the last SparseBitSet call and what it returned
    systems,        \* World._systems: the registered System ids, in run order
    sysDirty,       \* World._queryCacheDirty as a list of [def, value] entries
    sysRegistered,  \* the Systems the caller has passed to a register call
    sysTwice,       \* TRUE once a System was passed to a register call again
    sysLast,        \* the last call on the World with systems, and the events of an update
    sysCalls,       \* the number of calls made on the World with systems
    bQueryCache,    \* World with base entities: _queryCache, query -> array of entity ids
    bQueryCacheDirty, \* World with base entities: _queryCacheDirty, "absent" | "dirty" | "clean"
    mStore,         \* Component._store of the component that is mutated
    mPresent,       \* entity -> the value last stored for it, Undef when it has none
    mLast,          \* the last call made on that component and what it did
    mCalls,         \* the number of calls made on that component
    bark,           \* Bark._statics: event type -> its Bark instance
    barkRunGroups,  \* Bark._runGroups
    barkDelivered,  \* <<listener, event>> -> how often the listener was called with the event
    barkLast,       \* the last call made on Bark and what it returned
    barkCalls       \* the number of calls made on Bark

ssVars == <<sset, present, reAdded, ssLast>>

wVars == <<entities, cemetery, stores, queryCache, queryCacheDirty, wLast, calls>>
rVars == <<rEntities, rCemetery, rStores, rQueryCache, rDirtyQueries, rLast, rCalls>>
bVars == <<bEntities, bCompound, bInheritance, bStatic, bCemetery, bStores, bLast, bCalls>>
qVars == <<qb, qbLast>>
b4Vars == <<b4, b4Last, b4Calls>>
b6Vars == <<b6, b6Last>>
p5Vars == <<memArray, memSize, setFlagCount, p5Last, p5Calls, instancePool>>
regVars == <<statics, idMap, idCounter, created, regLast>>
varVars == <<vSet, vBit, vTag, vLast>>
sbVars == <<sbs, sbsPresent, sbsAdded, sbsReAdded, sbsLast>>
sysVars == <<systems, sysDirty, sysRegistered, sysTwice, sysLast, sysCalls>>
bqVars == <<bQueryCache, bQueryCacheDirty>>
mutVars == <<mStore, mPresent, mLast, mCalls>>
barkVars == <<bark, barkRunGroups, barkDelivered, barkLast, barkCalls>>
lateVars == <<sysVars, bqVars, mutVars, barkVars>>
notBqVars == <<sysVars, mutVars, barkVars>>

vars == <<sset, present, reAdded, ssLast,
          entities, cemetery, stores, queryCache, queryCacheDirty, wLast, calls,
          rEntities, rCemetery, rStores, rQueryCache, rDirtyQueries, rLast, rCalls,
          bEntities, bCompound, bInheritance, bStatic, bCemetery, bStores, bLast, bCalls,
          qb, qbLast,
          b4, b4Last, b4Calls, b6, b6Last,
          memArray, memSize, setFlagCount, p5Last, p5Calls, instancePool,
          statics, idMap, idCounter, created, regLast,
          vSet, vBit, vTag, vLast,
          sbs, sbsPresent, sbsAdded, sbsReAdded, sbsLast,
          systems, sysDirty, sysRegistered, sysTwice, sysLast, sysCalls,
          bQueryCache, bQueryCacheDirty, mStore, mPresent, mLast, mCalls,
          bark, barkRunGroups, barkDelivered, barkLast, barkCalls>>

\* ------------------------------------------------------- JavaScript arrays

\* arr[i]: undefined outside the array.
At(arr, i) == IF i >= 0 /\ i < Len(arr) THEN arr[i + 1] ELSE Undef

\* arr[i] = v: an index at or past the length extends the array, leaving holes.
PutWith(arr, i, v, hole) ==
    [k \in 1 .. (IF i + 1 > Len(arr) THEN i + 1 ELSE Len(arr)) |->
        IF k = i + 1 THEN v ELSE IF k <= Len(arr) THEN arr[k] ELSE hole]

Put(arr, i, v) == PutWith(arr, i, v, Undef)

\* arr.pop(): drops the last element, if any.
Pop(arr) == IF Len(arr) = 0 THEN arr ELSE SubSeq(arr, 1, Len(arr) - 1)

\* --------------------------------------------------------------- SparseSet

\* new SparseSet(), its sparse array seen over the indices D.
SSNewOver(D) == [sparse |-> [i \in D |-> Undef], denseValue |-> <<>>, denseIndex |-> <<>>]

SSNew == SSNewOver(Indices)

\* SparseSet.has
SSHas(s, index) == s.sparse[index] # Undef

\* SparseSet.get
SSGet(s, index) ==
    IF s.sparse[index] = Undef THEN Undef ELSE At(s.denseValue, s.sparse[index])

\* SparseSet.getUnchecked
SSGetUnchecked(s, index) == At(s.denseValue, s.sparse[index])

\* Component.createLiteralInstance: { value, type }
CreateLiteralInstance(value, type) == [value |-> value, type |-> type]

\* Component.get returns null: value === null, value being what the store's
\* get returned.
ComponentGetIsNull(s, index) == SSGet(s, index) = JsNull

\* Component.get: the wrapper it returns when it does not return null.
ComponentGet(s, index, type) == CreateLiteralInstance(SSGet(s, index), type)

\* SparseSet.add: the value it returns.
SSAddRet(s, index) == s.sparse[index] = Undef

\* SparseSet.add: the set afterwards.
SSAdd(s, index, value) ==
    IF s.sparse[index] # Undef
    THEN s
    ELSE [sparse     |-> [s.sparse EXCEPT ![index] = Len(s.denseValue)],
          denseValue |-> Append(s.denseValue, value),
          denseIndex |-> Append(s.denseIndex, index)]

\* SparseSet.remove: the value it returns.
SSRemoveRet(s, index) ==
    IF s.sparse[index] = Undef THEN Undef ELSE At(s.denseValue, s.sparse[index])

\* SparseSet.remove: the set afterwards.  The last dense entry is copied into
\* slot sparse[index], the sparse entry of the copied entry is set to that
\* slot and the last entry is popped; sparse[index] itself is not touched.
SSRemove(s, index) ==
    LET denseIndex == s.sparse[index]
        dv == Put(s.denseValue, denseIndex, At(s.denseValue, Len(s.denseValue) - 1))
        di == Put(s.denseIndex, denseIndex, At(s.denseIndex, Len(s.denseIndex) - 1))
        moved == At(di, denseIndex)
    IN  IF denseIndex = Undef
        THEN s
        ELSE [sparse     |-> IF moved = Undef THEN s.sparse
                             ELSE [s.sparse EXCEPT ![moved] = denseIndex],
              denseValue |-> Pop(dv),
              denseIndex |-> Pop(di)]

\* --------------------------------------------------------- QueryDefinition

\* A QueryDefinition: the five filter Bitsets and the parameter types.
QueryOf(all, none, one, some, only, params) ==
    [withAll |-> all, withNone |-> none, withOne |-> one, withSome |-> some,
     withOnly |-> only, paramTypes |-> params]

\* The Query instances the caller holds; the instance is the cache key.
QueryNames == {"allAB", "noneB"}

QueryDefs ==
    [q \in QueryNames |->
        CASE q = "allAB"      -> QueryOf({TypeA, TypeB}, {}, {}, {}, {}, <<TypeA, TypeB>>)
          [] q = "noneB"      -> QueryOf({}, {TypeB}, {}, {}, {}, <<>>)]

\* A satisfiedBy that leaves out the withOne check.
SatisfiedByWithoutOne(q, signature) ==
    IF Cardinality(q.withOnly) # 0 THEN signature = q.withOnly
    ELSE IF q.withNone \cap signature # {} THEN FALSE
    ELSE IF Cardinality(q.withSome) # 0 /\ Cardinality(q.withSome \cap signature) = 0
         THEN FALSE
    ELSE q.withAll \subseteq signature

\* QueryDefinition.satisfiedBy
SatisfiedBy(q, signature) ==
    IF Cardinality(q.withOnly) # 0 THEN signature = q.withOnly
    ELSE IF q.withNone \cap signature # {} THEN FALSE
    ELSE IF Cardinality(q.withOne) # 0 /\ Cardinality(q.withOne \cap signature) # 1
        THEN FALSE
    ELSE IF Cardinality(q.withSome) # 0 /\ Cardinality(q.withSome \cap signature) = 0
        THEN FALSE
    ELSE q.withAll \subseteq signature

\* ------------------------------------------------------------------- World

\* The elements of World._entities: a signature Bitset, null, or a hole.
BitsetOf(bits) == [tag |-> "bitset", bits |-> bits]

NullEntity == [tag |-> "null", bits |-> {}]

HoleEntity == [tag |-> "hole", bits |-> {}]

\* this._entities[entity]
EntityAt(ents, entity) ==
    IF entity >= 0 /\ entity < Len(ents) THEN ents[entity + 1] ELSE HoleEntity

\* this._entities[entity] ?? Bitset.null
SignatureOrNull(ents, entity) ==
    IF EntityAt(ents, entity).tag = "bitset" THEN EntityAt(ents, entity).bits ELSE {}

\* this._entities[entity]?.set(id, value)
SetBit(ents, entity, id, value) ==
    IF EntityAt(ents, entity).tag # "bitset" THEN ents
    ELSE [ents EXCEPT ![entity + 1] =
            BitsetOf(IF value THEN @.bits \cup {id} ELSE @.bits \ {id})]

\* An entity id is alive when its slot holds a signature.
IsLive(ents, entity) == EntityAt(ents, entity).tag = "bitset"

LiveEntities(ents) == {e \in EntityIds : IsLive(ents, e)}

\* World.dirtyQueriesMatching: every cached query the signature satisfies is dirtied.
DirtyQueriesMatching(dirty, signature) ==
    [q \in QueryNames |->
        IF dirty[q] # "absent" /\ SatisfiedBy(QueryDefs[q], signature)
        THEN "dirty" ELSE dirty[q]]

\* World.refreshQuery: the loop over the first n slots of _entities.
RECURSIVE RefreshUpTo(_, _, _)
RefreshUpTo(q, ents, n) ==
    IF n = 0 THEN <<>>
    ELSE IF SatisfiedBy(q, SignatureOrNull(ents, n - 1))
         THEN Append(RefreshUpTo(q, ents, n - 1), n - 1)
         ELSE RefreshUpTo(q, ents, n - 1)

\* World.refreshQuery: the new cached list.
RefreshQuery(q, ents) == RefreshUpTo(q, ents, Len(ents))

\* World.get throws unless the entity's signature is a superset of the types.
GetThrows(ents, types, entity) ==
    \/ EntityAt(ents, entity).tag # "bitset"
    \/ ~({types[k] : k \in 1 .. Len(types)} \subseteq EntityAt(ents, entity).bits)

\* World.query: the entities of the cached list the callback is invoked for,
\* in order, up to the first one World.get throws for.
RECURSIVE Visited(_, _, _)
Visited(ents, types, list) ==
    IF list = <<>> \/ GetThrows(ents, types, Head(list)) THEN <<>>
    ELSE <<Head(list)>> \o Visited(ents, types, Tail(list))

\* Component.set: SparseSet.add on the store of the component's type.
ComponentSet(st, index, type, value) == [st EXCEPT ![type] = SSAdd(@, index, value)]

\* Component.removeAll: the loop over the registered types from type on;
\* result ||= ... evaluates the remove only while result is false.
RECURSIVE RemoveAllFrom(_, _, _, _)
RemoveAllFrom(st, index, type, result) ==
    IF type \notin Types THEN [stores |-> st, result |-> result]
    ELSE IF result THEN RemoveAllFrom(st, index, type + 1, result)
    ELSE RemoveAllFrom([st EXCEPT ![type] = SSRemove(@, index)], index, type + 1,
                       SSRemoveRet(st[type], index) # JsNull)

\* Component.removeAll
RemoveAll(st, index) == RemoveAllFrom(st, index, TypeA, FALSE)

\* The record of a World call.
Call(op, entity, type, types, value, ok, query, visited) ==
    [op |-> op, entity |-> entity, type |-> type, types |-> types, value |-> value,
     ok |-> ok, query |-> query, visited |-> visited]

\* A free-list that hands out the oldest removed id first.
NextEntityFifo(cem, ents) == IF Len(cem) > 0 THEN cem[1] ELSE Len(ents)

\* cemetery.pop() ?? entities.length
NextEntity(cem, ents) == IF Len(cem) > 0 THEN cem[Len(cem)] ELSE Len(ents)

\* ------------------------------------------- the SparseSet specification

SSFresh ==
    /\ sset = SSNew
    /\ present = [i \in Indices |-> Undef]
    /\ reAdded = FALSE
    /\ ssLast = [op |-> "new", index |-> Undef, ok |-> TRUE, val |-> Undef]

\* new World(), with both component types registered.
WorldFresh ==
    /\ entities = <<>>
    /\ cemetery = <<>>
    /\ stores = [t \in Types |-> SSNewOver(EntityIds)]
    /\ queryCache = [q \in QueryNames |-> <<>>]
    /\ queryCacheDirty = [q \in QueryNames |-> "absent"]
    /\ wLast = Call("new", Undef, Undef, {}, Undef, TRUE, "", <<>>)
    /\ calls = 0

\* The entity ids the world.ts World can hand out in a run.
RunIds == 0 .. InitialSize + MaxRunCalls - 1

\* The Query instances the caller of the world.ts World holds.
RunQueryNames == {"allAB", "noneB"}

RunQueryDefs ==
    [q \in RunQueryNames |->
        CASE q = "allAB" -> QueryOf({TypeA, TypeB}, {}, {}, {}, {}, <<TypeA, TypeB>>)
          [] q = "noneB" -> QueryOf({}, {TypeB}, {}, {}, {}, <<>>)]

\* new World() of world.ts: INITIAL_SIZE undefined slots, and a cemetery whose
\* pop yields 0, 1, 2, ...
RunFresh ==
    /\ rEntities = [k \in 1 .. InitialSize |-> HoleEntity]
    /\ rCemetery = [k \in 1 .. InitialSize |-> InitialSize - k]
    /\ rStores = [t \in Types |-> SSNewOver(RunIds)]
    /\ rQueryCache = [q \in RunQueryNames |-> [has |-> FALSE, list |-> <<>>]]
    /\ rDirtyQueries = {}
    /\ rLast = [op |-> "new", entity |-> Undef, type |-> Undef, query |-> "",
                visited |-> <<>>, components |-> <<>>, handed |-> <<>>]
    /\ rCalls = 0

\* new World() of the World with base (static) entities.
BaseFresh ==
    /\ bEntities = <<>>
    /\ bCompound = <<>>
    /\ bInheritance = <<>>
    /\ bStatic = <<>>
    /\ bCemetery = <<>>
    /\ bStores = [t \in Types |-> SSNewOver(EntityIds)]
    /\ bLast = [op |-> "new", entity |-> Undef, types |-> <<>>, ok |-> TRUE,
                result |-> <<>>]
    /\ bCalls = 0

\* new QueryDefinition(): five empty filters, no parameter types.
QueryFresh ==
    /\ qb = QueryOf({}, {}, {}, {}, {}, <<>>)
    /\ qbLast = [op |-> "new", threw |-> FALSE]

\* ------------------------------------------------ Bitset, bit-packed

\* The number of bits of a byte of _bytes.
BitsPerByte == 8

\* Bitset._defaultSize: the byte length of the buffer of a new Bitset.
DefaultSize == 64

\* The number of Bitset calls of a run.
MaxBitCalls == 3

\* The bit indices passed to set: in the first byte, in the second byte, and
\* the first one beyond the default buffer's byte count.
BitIndices == {0, 9, DefaultSize}

\* Bitset.null and two bitsets made with new Bitset().
BitsetNames == {"null", "a", "b"}

Max(x, y) == IF x > y THEN x ELSE y

BoolToNum(b) == IF b THEN 1 ELSE 0

\* The bit offsets of a byte.
ByteOffsets == 0 .. BitsPerByte - 1

\* new Bitset() with a buffer of the given byte length. `bits` holds the
\* positions of the 1 bits of _bytes: byte k holds positions 8k .. 8k + 7.
NewBitset(byteLength) ==
    [bits |-> {}, size |-> 0, byteLength |-> byteLength, setCount |-> 0]

\* Bitset.null is constructed by the static initializer that precedes the one
\* of _defaultSize: its buffer is new ArrayBuffer(undefined), of length 0.
NullByteLength == 0

\* i is an index of _bytes.
InBuffer(bs, i) == i < bs.byteLength

\* _bytes[i], as the set of the offsets of its 1 bits; a read outside the
\* buffer gives undefined, which the bitwise operators take as 0.
ByteAt(bs, i) == {p % BitsPerByte : p \in {q \in bs.bits : q \div BitsPerByte = i}}

\* _bytes[i] = byte: a write outside the buffer is ignored.
WithByte(bs, i, byte) ==
    IF InBuffer(bs, i)
    THEN [bs EXCEPT !.bits = {q \in @ : q \div BitsPerByte # i}
                              \cup {BitsPerByte * i + k : k \in byte}]
    ELSE bs

\* byteLength * 2 ** ceil(log2(requiredBytes / byteLength)); with a byte
\* length of 0 the product is NaN and the new buffer has length 0 again.
RECURSIVE GrowTo(_, _)
GrowTo(byteLength, requiredBytes) ==
    IF byteLength = 0 \/ byteLength >= requiredBytes THEN byteLength
    ELSE GrowTo(2 * byteLength, requiredBytes)

\* ensureCapacity(bits)
B4EnsureCapacity(bs, bits) ==
    [bs EXCEPT !.size = Max(@, bits),
               !.byteLength = GrowTo(@, (bits \div BitsPerByte) + 1)]

\* set(index, value): the counter is assigned, not incremented.
B4Set(bs, index, value) ==
    LET grown     == B4EnsureCapacity(bs, index + 1)
        byteIndex == index \div BitsPerByte
        bitIndex  == index % BitsPerByte
        wasSet    == bitIndex \in ByteAt(grown, byteIndex)
        byte      == (ByteAt(grown, byteIndex) \ {bitIndex})
                     \cup (IF value THEN {bitIndex} ELSE {})
    IN  [WithByte(grown, byteIndex, byte)
            EXCEPT !.setCount = BoolToNum(value) - BoolToNum(wasSet)]

\* get(index)
B4Get(bs, index) == (index % BitsPerByte) \in ByteAt(bs, index \div BitsPerByte)

\* One byte of and, or, xor.
ByteOp(op, x, y) ==
    CASE op = "and" -> x \cap y
      [] op = "or"  -> x \cup y
      [] op = "xor" -> (x \ y) \cup (y \ x)

\* The loop shared by and(other), or(other) and xor(other): bytes 0 ..
\* maxByteIndex - 1 are combined and counted.
B4Combine(op, this, other) ==
    LET maxLength    == Max(this.size, other.size)
        grown        == B4EnsureCapacity(this, maxLength)
        maxByteIndex == (maxLength \div BitsPerByte) + 1
        written      == {i \in 0 .. maxByteIndex - 1 : InBuffer(grown, i)}
        newBits      == {q \in grown.bits : (q \div BitsPerByte) \notin written}
                        \cup UNION {{BitsPerByte * i + k :
                                        k \in ByteOp(op, ByteAt(grown, i), ByteAt(other, i))} :
                                    i \in written}
    IN  [grown EXCEPT !.bits = newBits,
                      !.setCount = Cardinality({q \in newBits :
                                                   (q \div BitsPerByte) \in written})]

\* and(other)
B4And(this, other) == B4Combine("and", this, other)

\* or(other)
B4Or(this, other) == B4Combine("or", this, other)

\* xor(other)
B4Xor(this, other) == B4Combine("xor", this, other)

\* not(): the bytes before the last one are flipped; then the byte AT
\* maxByteIndex is assigned the masked complement of the byte at index
\* lastByteBitCount.
B4Not(bs) ==
    LET maxByteIndex     == (bs.size \div BitsPerByte) + 1
        full             == {i \in 0 .. maxByteIndex - 2 : InBuffer(bs, i)}
        flipped          == [bs EXCEPT !.bits =
                                {q \in @ : (q \div BitsPerByte) \notin full}
                                \cup UNION {{BitsPerByte * i + k :
                                                k \in ByteOffsets \ ByteAt(bs, i)} :
                                            i \in full}]
        lastByteBitCount == bs.size % BitsPerByte
        mask             == 0 .. lastByteBitCount - 1
        byte             == (ByteOffsets \ ByteAt(flipped, lastByteBitCount)) \cap mask
    IN  [WithByte(flipped, maxByteIndex, byte) EXCEPT !.setCount = bs.size - bs.setCount]

\* clear()
B4Clear(bs) == [bs EXCEPT !.bits = {}, !.size = 0, !.setCount = 0]

\* Bitset.xor(a, b): a new Bitset xor-ed with each argument in turn.
B4StaticXor(a, b) == B4Xor(B4Xor(NewBitset(DefaultSize), a), b)

\* Bitset.equal(a, b), which a.equals(b) returns: the loop runs over
\* i < xorResult._size and reads _bytes[i]; undefined === 0x0 is false.
B4Equal(a, b) ==
    LET xorResult == B4StaticXor(a, b)
    IN  \A i \in 0 .. xorResult.size - 1 :
            InBuffer(xorResult, i) /\ ByteAt(xorResult, i) = {}

\* The bit-packed Bitsets after the class is loaded and a, b are constructed.
BitsetFresh ==
    /\ b4 = [n \in BitsetNames |->
                IF n = "null" THEN NewBitset(NullByteLength) ELSE NewBitset(DefaultSize)]
    /\ b4Last = [op |-> "new", recv |-> "a", arg |-> "a", index |-> 0,
                 value |-> FALSE, result |-> FALSE]
    /\ b4Calls = 0

\* ---------------------------------------------- Bitset, one byte per flag

\* The indices passed to set and get: two in the default buffer, two beyond it.
FlagIndices == {0, 3, DefaultSize, DefaultSize + 10}

\* Bitset.null and a bitset made with new Bitset().
ByteBitsetNames == {"null", "a"}

\* new Bitset(): `flags` holds the indices whose byte of _bits is 0xf.
NewByteBitset(byteLength) ==
    [flags |-> {}, size |-> 0, byteLength |-> byteLength, setCount |-> 0]

\* ensureCapacity(bytes)
B6EnsureCapacity(bs, bytes) ==
    [bs EXCEPT !.size = Max(@, bytes), !.byteLength = GrowTo(@, bytes)]

\* set(index, value): the counter is left alone; a write outside the buffer
\* is ignored.
B6Set(bs, index, value) ==
    LET grown == B6EnsureCapacity(bs, index + 1)
    IN  IF index < grown.byteLength
        THEN [grown EXCEPT !.flags = IF value THEN @ \cup {index} ELSE @ \ {index}]
        ELSE grown

\* get(index): _bits[index] === 0xf, false for undefined.
B6Get(bs, index) == index \in bs.flags

\* clear()
B6Clear(bs) == [bs EXCEPT !.flags = {}, !.size = 0, !.setCount = 0]

\* The byte-per-flag Bitsets after the class is loaded and a is constructed.
ByteBitsetFresh ==
    /\ b6 = [n \in ByteBitsetNames |->
                IF n = "null" THEN NewByteBitset(NullByteLength)
                ELSE NewByteBitset(DefaultSize)]
    /\ b6Last = [op |-> "new", recv |-> "a", index |-> 0, value |-> FALSE, result |-> FALSE]

\* ------------------------------------------------- Bitset, pooled memory

\* Bitset.setFlagCount(32) of the static block.
FlagCount == 32

\* _int8Count: the bytes of _memArray that belong to one Bitset.
Int8Count == ((FlagCount + BitsPerByte - 1) \div BitsPerByte)

\* The byte length of _memBuffer after memReset().
MemBytes == 1024

\* The number of pooled Bitsets of a run, Bitset.null included.
MaxBitsets == 4

\* The number of calls made on the pooled Bitsets of a run.
MaxPoolCalls == 4

\* The indices passed to set and get: two below the flag count, two from it on.
PoolIndices == {0, 9, FlagCount, FlagCount + 9}

MemIndices == 0 .. MaxBitsets - 1

\* getBitIntIndex(bitIndex) of the Bitset at memIndex
GetBitIntIndex(memIndex, bitIndex) == memIndex * Int8Count + (bitIndex \div BitsPerByte)

\* The position in _memArray of the bit that set and get address.
BitPosition(memIndex, index) ==
    BitsPerByte * GetBitIntIndex(memIndex, index) + (index % BitsPerByte)

\* get(index)
P5Get(mem, memIndex, index) == BitPosition(memIndex, index) \in mem

\* set(index, value) on _memArray: a write outside the array is ignored.
P5Set(mem, memIndex, index, value) ==
    IF GetBitIntIndex(memIndex, index) < MemBytes
    THEN IF value THEN mem \cup {BitPosition(memIndex, index)}
         ELSE mem \ {BitPosition(memIndex, index)}
    ELSE mem

\* The positions of _memArray[_intIndex + i], i < _int8Count, of a Bitset.
OwnPositions(memIndex) ==
    {p \in BitsPerByte * Int8Count * memIndex ..
           BitsPerByte * Int8Count * (memIndex + 1) - 1 : p < BitsPerByte * MemBytes}

\* The 1 bits of the Int8Count bytes of a Bitset, counted from its first bit.
OwnBits(mem, memIndex) ==
    {p - BitsPerByte * Int8Count * memIndex : p \in mem \cap OwnPositions(memIndex)}

\* The loops for (i < _int8Count) that assign the bytes of a Bitset.
WithOwnBits(mem, memIndex, bits) ==
    (mem \ OwnPositions(memIndex))
    \cup ({BitsPerByte * Int8Count * memIndex + b : b \in bits} \cap OwnPositions(memIndex))

\* The static state of the pooled Bitset class and the counters of its
\* instances, as one value: st = [mem, size, pool, counts].
\* clear()
P5Clear(st, memIndex) ==
    [st EXCEPT !.mem = WithOwnBits(@, memIndex, {}), !.counts[memIndex] = 0]

\* new Bitset(): reserveIndex() pops a hole off _cemetery (nothing is ever
\* pushed on it) and hands out slot _memSize; the memory is not cleared.
P5Construct(st) ==
    [st |-> [st EXCEPT !.size = @ + 1, !.counts[st.size] = 0], rented |-> st.size]

\* Bitset.rent()
P5Rent(st) ==
    IF Len(st.pool) > 0
    THEN [st |-> P5Clear([st EXCEPT !.pool = Pop(@)], st.pool[Len(st.pool)]),
          rented |-> st.pool[Len(st.pool)]]
    ELSE P5Construct(st)

\* Bitset.return(bitset): Bitset.null (memIndex 0) is not pooled.
P5Return(st, memIndex) ==
    IF memIndex # 0 THEN [st EXCEPT !.pool = Append(@, memIndex)] ELSE st

\* this.and(other), this.or(other), this.xor(other): the bytes are combined
\* and the counter is recounted.
P5Combine(op, st, this, other) ==
    LET bits == ByteOp(op, OwnBits(st.mem, this), OwnBits(st.mem, other))
    IN  [st EXCEPT !.mem = WithOwnBits(@, this, bits), !.counts[this] = Cardinality(bits)]

\* this.copyTo(other)
P5CopyTo(st, this, other) ==
    [st EXCEPT !.mem = WithOwnBits(@, other, OwnBits(st.mem, this)),
               !.counts[other] = st.counts[this]]

\* for (i = 0; i < bitsets.length; i++) result.op(bitsets[i]), up to n.
RECURSIVE P5Fold(_, _, _, _, _)
P5Fold(op, st, result, bitsets, n) ==
    IF n = 0 THEN st
    ELSE P5Combine(op, P5Fold(op, st, result, bitsets, n - 1), result, bitsets[n])

\* Bitset.and(...bitsets): with no argument a rented bitset is returned.
P5StaticAnd(st, bitsets) ==
    IF Len(bitsets) = 0 THEN P5Rent(st)
    ELSE LET r == P5Rent(st)
         IN  [st |-> P5Fold("and", P5CopyTo(r.st, bitsets[1], r.rented), r.rented,
                            bitsets, Len(bitsets)),
              rented |-> r.rented]

\* Bitset.or(...bitsets) and Bitset.xor(...bitsets)
P5StaticOrXor(op, st, bitsets) ==
    LET r == P5Rent(st)
    IN  [st |-> P5Fold(op, r.st, r.rented, bitsets, Len(bitsets)), rented |-> r.rented]

\* Bitset.and / Bitset.or / Bitset.xor by name.
P5Static(op, st, bitsets) ==
    IF op = "and" THEN P5StaticAnd(st, bitsets) ELSE P5StaticOrXor(op, st, bitsets)

\* this.equals(other)
P5Equals(mem, this, other) == OwnBits(mem, this) = OwnBits(mem, other)

\* this.isSubsetOf(other)
P5IsSubsetOf(st, this, other) ==
    LET r == P5StaticAnd(st, <<this, other>>)
    IN  [st |-> P5Return(r.st, r.rented), result |-> P5Equals(r.st.mem, r.rented, this)]

\* this.isSupersetOf(other)
P5IsSupersetOf(st, this, other) == P5IsSubsetOf(st, other, this)

\* The record of a call on the pooled Bitsets.
P5Call(op, memIndex, other, argc, index, value, result, threw) ==
    [op |-> op, memIndex |-> memIndex, other |-> other, argc |-> argc, index |-> index,
     value |-> value, result |-> result, threw |-> threw]

\* The static block: setFlagCount(32), memReset(), null = new Bitset().
PooledFresh ==
    /\ memArray = {}
    /\ memSize = 1
    /\ instancePool = <<>>
    /\ setFlagCount = [k \in MemIndices |-> 0]
    /\ p5Last = P5Call("new", 0, 0, 0, 0, FALSE, FALSE, FALSE)
    /\ p5Calls = 0

\* ------------------------------------------------ the Component registry

\* The type descriptors the caller passes to Component.T.
TypeDescs == {"PosTest", "VelTest", "TagTest"}

\* The number of Component instances constructed in a run.
MaxComponents == 4

\* No Component: what Map.get yields for a missing key.
NoComponent == [ident |-> 0, id |-> 0]

\* Component._statics.get(type)
StaticsGetNothing(map, type) == NoComponent

StaticsGet(map, type) == map[type]

\* The class after it is loaded: empty maps, _idCounter = 0.
RegistryFresh ==
    /\ statics = [t \in TypeDescs |-> NoComponent]
    /\ idMap = [t \in TypeDescs |-> Undef]
    /\ idCounter = 0
    /\ created = 0
    /\ regLast = [op |-> "load", type |-> "", component |-> NoComponent, existed |-> FALSE,
                  signature |-> {}]

\* --------------------------------------------- the sparse-set variants

\* A boolean as a stored value.
BoolValues == {0, 1}

\* new SparseBitSet(), map-backed: index -> value, Undef for a missing key.
MapNew == [i \in Indices |-> Undef]

\* SparseBitSet.has: index in this._map
MapHas(map, index) == map[index] # Undef

\* SparseBitSet.add: the value it returns.
MapAddRet(map, index) == ~MapHas(map, index)

\* SparseBitSet.add: the map afterwards.
MapAdd(map, index, value) ==
    IF MapHas(map, index) THEN map ELSE [map EXCEPT ![index] = value]

\* SparseBitSet.remove: the value it returns, value ?? undefined.
MapRemoveRet(map, index) == map[index]

\* SparseBitSet.remove: the map afterwards.
MapRemove(map, index) == [map EXCEPT ![index] = Undef]

\* SparseTagSet.has
TagHas(set, index) == index \in set

\* SparseTagSet.add: the value it returns.
TagAddRet(set, index) == index \notin set

\* SparseTagSet.add: the set afterwards.
TagAdd(set, index) == set \cup {index}

\* SparseTagSet.remove: the value it returns, removed || undefined (1 is true).
TagRemoveRet(set, index) == IF index \in set THEN 1 ELSE Undef

\* SparseTagSet.remove: the set afterwards.
TagRemove(set, index) == set \ {index}

\* A SparseSet, a SparseBitSet and a SparseTagSet, just constructed.
VariantsFresh ==
    /\ vSet = SSNew
    /\ vBit = MapNew
    /\ vTag = {}
    /\ vLast = [op |-> "new", index |-> Undef, value |-> Undef,
                added |-> <<FALSE, FALSE, FALSE>>, removed |-> <<Undef, Undef, Undef>>]

\* --------------------------------------- SparseBitSet, backed by a Bitset

\* Bitset.last: get(this._size)
B4Last(bs) == B4Get(bs, bs.size)

\* Bitset.pop()
B4Pop(bs) ==
    IF bs.size <= 0 THEN bs
    ELSE [B4Set(bs, bs.size - 1, FALSE) EXCEPT !.size = @ - 1]

\* new SparseBitSet(): _sparse = new Array(Bitset.defaultSize), seen over
\* Indices; _dense = new Bitset().
SbsNew == [sparse |-> [i \in Indices |-> Undef], dense |-> NewBitset(DefaultSize)]

\* SparseBitSet.has
SbsHas(s, index) == s.sparse[index] # Undef

\* SparseBitSet.get: null for a missing index, else the flag, as 0 or 1.
SbsGet(s, index) ==
    IF s.sparse[index] = Undef THEN JsNull
    ELSE BoolToNum(B4Get(s.dense, s.sparse[index]))

\* SparseBitSet.add: the value it returns.
SbsAddRet(s, index) == s.sparse[index] = Undef

\* SparseBitSet.add: the set afterwards.
SbsAdd(s, index, value) ==
    IF s.sparse[index] # Undef THEN s
    ELSE LET dense == B4Set(s.dense, s.dense.size, value = 1)
         IN  [sparse |-> [s.sparse EXCEPT ![index] = dense.size - 1], dense |-> dense]

\* findSparseIndexFor(denseIndex): Array.findIndex, -1 (Undef) when none.
FindSparseIndexFor(s, denseIndex) ==
    IF \E i \in Indices : s.sparse[i] = denseIndex
    THEN CHOOSE i \in Indices :
            /\ s.sparse[i] = denseIndex
            /\ \A j \in Indices : s.sparse[j] = denseIndex => i <= j
    ELSE Undef

\* SparseBitSet.remove throws: the index has an entry and no sparse entry
\* holds the last dense index.
SbsRemoveThrows(s, index) ==
    s.sparse[index] # Undef /\ FindSparseIndexFor(s, s.dense.size - 1) = Undef

\* SparseBitSet.remove: the value it returns, null for a missing index.
SbsRemoveRet(s, index) ==
    IF s.sparse[index] = Undef THEN JsNull
    ELSE BoolToNum(B4Get(s.dense, s.sparse[index]))

\* SparseBitSet.remove: the set afterwards.  The slot takes _dense.last, the
\* sparse entry of the last element is redirected and the Bitset is popped;
\* _sparse[index] is left as it was.
SbsRemove(s, index) ==
    LET denseIndex      == s.sparse[index]
        lastSparseIndex == FindSparseIndexFor(s, s.dense.size - 1)
        dense           == B4Set(s.dense, denseIndex, B4Last(s.dense))
    IN  IF denseIndex = Undef \/ lastSparseIndex = Undef THEN s
        ELSE [sparse |-> [s.sparse EXCEPT ![lastSparseIndex] = denseIndex],
              dense  |-> B4Pop(dense)]

\* new SparseBitSet()
SparseBitFresh ==
    /\ sbs = SbsNew
    /\ sbsPresent = [i \in Indices |-> Undef]
    /\ sbsAdded = {}
    /\ sbsReAdded = FALSE
    /\ sbsLast = [op |-> "new", index |-> Undef, value |-> Undef, ok |-> TRUE,
                  ret |-> Undef, threw |-> FALSE]

\* ------------------------------------------- systems and World.update

\* The calls made on the World with systems in a run.
MaxSysCalls == 5

\* Stands for Number.MAX_VALUE, the runIndex of a System constructed without
\* one: larger than every runIndex a caller passes here.
NumberMaxValue == 1000

\* The System instances the caller holds, by id.
SystemIds == 1 .. 4

\* The runIndex each was constructed with, Undef for none.
GivenRunIndex == [id \in SystemIds |-> CASE id = 1 -> 2 [] id = 2 -> 0 [] id = 3 -> 2 [] OTHER -> Undef]

\* System constructor: this.runIndex = runIndex ?? Number.MAX_VALUE
RunIndex(id) == IF GivenRunIndex[id] = Undef THEN NumberMaxValue ELSE GivenRunIndex[id]

\* The QueryDefinitions the caller holds.
SysQueryDefs == {"q1", "q2"}

\* The comparator of the sort: (a, b) => a.runIndex - b.runIndex
CompareSystems(a, b) == RunIndex(a) - RunIndex(b)

\* this._systems.includes(system)
Includes(list, system) == \E k \in 1 .. Len(list) : list[k] = system

\* One element put into a sorted list behind every element that does not
\* compare greater than it.
InsertSorted(sorted, x) ==
    LET before == Cardinality({k \in 1 .. Len(sorted) : CompareSystems(sorted[k], x) <= 0})
    IN  SubSeq(sorted, 1, before) \o <<x>> \o SubSeq(sorted, before + 1, Len(sorted))

\* A sort that leaves the list as it is.
SortNothing(list) == list

\* Array.prototype.sort with the comparator: a stable sort.
RECURSIVE SortSystems(_)
SortSystems(list) ==
    IF Len(list) = 0 THEN list
    ELSE InsertSorted(SortSystems(SubSeq(list, 1, Len(list) - 1)), list[Len(list)])

\* World.registerSystem: the value it returns.
RegisterSystemRet(list, system) == ~Includes(list, system)

\* World.registerSystem: _systems afterwards.
RegisterSystem(list, system) ==
    IF Includes(list, system) THEN list ELSE SortSystems(Append(list, system))

\* World.registerSystems, the loop: pushes each argument not yet included.
RECURSIVE PushSystems(_, _, _)
PushSystems(list, args, n) ==
    IF n = 0 THEN list
    ELSE LET pushed == PushSystems(list, args, n - 1)
         IN  IF Includes(pushed, args[n]) THEN pushed ELSE Append(pushed, args[n])

\* World.registerSystems: _systems afterwards.
RegisterSystems(list, args) == SortSystems(PushSystems(list, args, Len(args)))

\* this._queryCacheDirty.get(def), Undef for a missing key.
DirtyGet(map, def) ==
    IF \E k \in 1 .. Len(map) : map[k].def = def
    THEN BoolToNum(map[CHOOSE k \in 1 .. Len(map) : map[k].def = def].value)
    ELSE Undef

\* this._queryCacheDirty.set(def, value): a new key goes to the end, a key
\* already there keeps its place.
DirtySet(map, def, value) ==
    IF \E k \in 1 .. Len(map) : map[k].def = def
    THEN [k \in 1 .. Len(map) |-> IF map[k].def = def THEN [def |-> def, value |-> value] ELSE map[k]]
    ELSE Append(map, [def |-> def, value |-> value])

\* World.dirtyQueriesMatching(signature): matching is the set of cached
\* definitions the signature satisfies.
SysDirtyQueriesMatching(map, matching) ==
    [k \in 1 .. Len(map) |->
        IF map[k].def \in matching THEN [def |-> map[k].def, value |-> TRUE] ELSE map[k]]

\* What the callback of a System does to the world: the cached definitions
\* satisfied by the signatures it changes.
CallbackDirties(id) == IF id = 1 THEN {"q1"} ELSE {}

\* An event of an update: a refreshQuery(def) or the run of a System.
RefreshEvent(def) == [kind |-> "refresh", def |-> def, system |-> 0]

RunEvent(id) == [kind |-> "run", def |-> "", system |-> id]

\* World.update, the first loop over the first n entries of the map:
\* if (value) this.refreshQuery(def)
RECURSIVE UpdateRefreshes(_, _)
UpdateRefreshes(map, n) ==
    IF n = 0 THEN [map |-> map, trace |-> <<>>]
    ELSE LET done == UpdateRefreshes(map, n - 1)
         IN  IF done.map[n].value
             THEN [map   |-> DirtySet(done.map, done.map[n].def, FALSE),
                   trace |-> Append(done.trace, RefreshEvent(done.map[n].def))]
             ELSE done

\* World.update, the second loop over the first n systems: system.run(this)
RECURSIVE UpdateRuns(_, _, _)
UpdateRuns(st, list, n) ==
    IF n = 0 THEN st
    ELSE LET done == UpdateRuns(st, list, n - 1)
         IN  [map   |-> SysDirtyQueriesMatching(done.map, CallbackDirties(list[n])),
              trace |-> Append(done.trace, RunEvent(list[n]))]

\* World.update
Update(map, list) == UpdateRuns(UpdateRefreshes(map, Len(map)), list, Len(list))

\* new World(): no systems, no cached query.
SystemsFresh ==
    /\ systems = <<>>
    /\ sysDirty = <<>>
    /\ sysRegistered = {}
    /\ sysTwice = FALSE
    /\ sysLast = [op |-> "new", ok |-> TRUE, dirtyBefore |-> {}, trace |-> <<>>]
    /\ sysCalls = 0

\* The QueryDefinitions the caller of the World with base entities holds.
BaseQueryNames == {"allA", "allB"}

BaseQueryDefs ==
    [q \in BaseQueryNames |->
        CASE q = "allA" -> QueryOf({TypeA}, {}, {}, {}, {}, <<TypeA>>)
          [] q = "allB" -> QueryOf({TypeB}, {}, {}, {}, {}, <<TypeB>>)]

\* new World() with base entities: no query cached.
BaseQueryFresh ==
    /\ bQueryCache = [q \in BaseQueryNames |-> <<>>]
    /\ bQueryCacheDirty = [q \in BaseQueryNames |-> "absent"]

\* The calls made on the mutated component in a run.
MaxMutCalls == 4

\* The values stored in the mutated component: the numbers 0, 1 and 2, and
\* -3 for the empty string and -4 for false.
MutValues == {0, 1, 2, -3, -4}

\* The values JavaScript's ! turns into true.
FalsyValues == {0, -3, -4, Undef, JsNull}

\* SparseSet.set
SSSet(s, index, value) ==
    IF s.sparse[index] = Undef THEN s
    ELSE [s EXCEPT !.denseValue = Put(@, s.sparse[index], value)]

\* Component.get (component.ts)
MutGet(s, entity) == SSGet(s, entity)

\* Component.mutate: the mutator is invoked, which !current decides.
MutatorIsCalled(current) == current \notin FalsyValues

\* Component.mutate: the store afterwards, newValue being what the mutator
\* returns.
ComponentMutate(s, entity, newValue) ==
    IF ~MutatorIsCalled(MutGet(s, entity)) THEN s
    ELSE IF newValue # Undef THEN SSSet(s, entity, newValue)
    ELSE s

\* A component just constructed.
MutateFresh ==
    /\ mStore = SSNew
    /\ mPresent = [i \in Indices |-> Undef]
    /\ mLast = [op |-> "new", entity |-> Undef, called |-> FALSE, arg |-> Undef, ret |-> Undef]
    /\ mCalls = 0

\* The calls made on Bark in a run.
MaxBarkCalls == 5

\* The events emitted and the listeners registered in a run.
MaxBarkEvents == 2

MaxBarkListeners == 2

\* The event classes, the run groups named by the callers, the events and
\* the listener functions, each event and listener a fresh object.
BarkCtors == {1, 2}

BarkGroups == {"immediate", "frame"}

BarkEvents == 1 .. MaxBarkEvents

BarkListeners == 1 .. MaxBarkListeners

\* No instance for the class in Bark._statics.
NoBark == [made |-> FALSE, eventBus |-> <<>>, groups |-> {},
           listeners |-> [g \in BarkGroups |-> <<>>]]

\* new Bark(ctor, id): _listeners holds "immediate" only.
NewBark == [made |-> TRUE, eventBus |-> <<>>, groups |-> {"immediate"},
            listeners |-> [g \in BarkGroups |-> <<>>]]

\* Bark.T(ctor): the map of instances afterwards.
BarkT(instances, ctor) ==
    IF instances[ctor].made THEN instances ELSE [instances EXCEPT ![ctor] = NewBark]

\* How often x occurs in the list.
Occurrences(list, x) == Cardinality({k \in 1 .. Len(list) : list[k] = x})

\* listeners.forEach(listener => listener(event)) for each event of the list.
CallListeners(delivered, listeners, events) ==
    [pair \in BarkListeners \X BarkEvents |->
        delivered[pair] + Occurrences(listeners, pair[1]) * Occurrences(events, pair[2])]

\* Bark.run(group) of one instance: the value it returns.
InstanceRunRet(instance, group) == group \in instance.groups

\* Bark.run(group) of one instance: the calls made afterwards.
InstanceRun(delivered, instance, group) ==
    IF ~InstanceRunRet(instance, group) THEN delivered
    ELSE CallListeners(delivered, instance.listeners[group], instance.eventBus)

\* static Bark.run(group), the loop over the instances of the classes up to ctor.
RECURSIVE StaticRunUpTo(_, _, _, _)
StaticRunUpTo(delivered, instances, group, ctor) ==
    IF ctor \notin BarkCtors THEN delivered
    ELSE LET done == StaticRunUpTo(delivered, instances, group, ctor - 1) IN
         IF instances[ctor].made THEN InstanceRun(done, instances[ctor], group) ELSE done

\* static Bark.run(group)
StaticRun(delivered, instances, runGroups, group) ==
    IF ~Includes(runGroups, group) THEN delivered
    ELSE StaticRunUpTo(delivered, instances, group, Cardinality(BarkCtors))

\* The events emitted and the listeners registered so far.
EmittedCount == Cardinality({e \in BarkEvents : \E c \in BarkCtors : Occurrences(bark[c].eventBus, e) > 0})

RegisteredCount ==
    Cardinality({l \in BarkListeners :
        \E c \in BarkCtors, g \in BarkGroups : Occurrences(bark[c].listeners[g], l) > 0})

\* Bark before any call.
BarkFresh ==
    /\ bark = [c \in BarkCtors |-> NoBark]
    /\ barkRunGroups = <<"immediate">>
    /\ barkDelivered = [pair \in BarkListeners \X BarkEvents |-> 0]
    /\ barkLast = [op |-> "new", ctor |-> 0, group |-> "", event |-> 0, listener |-> 0, ok |-> TRUE]
    /\ barkCalls = 0

\* The state of every part added after the sparse-set variants, just built.
LateFresh == SystemsFresh /\ BaseQueryFresh /\ MutateFresh /\ BarkFresh

SSInit == SSFresh /\ WorldFresh /\ RunFresh /\ BaseFresh /\ QueryFresh /\ BitsetFresh /\ ByteBitsetFresh /\ PooledFresh /\ RegistryFresh /\ VariantsFresh /\ SparseBitFresh
    /\ LateFresh

\* add(index, value)
SSAddCall ==
    \E index \in Indices, value \in Values :
        /\ sset' = SSAdd(sset, index, value)
        /\ present' = IF present[index] = Undef
                      THEN [present EXCEPT ![index] = value] ELSE present
        /\ reAdded' = (reAdded \/ sset.sparse[index] # Undef)
        /\ ssLast' = [op |-> "add", index |-> index,
                      ok |-> SSAddRet(sset, index), val |-> value]
        /\ UNCHANGED <<wVars, rVars, bVars, qVars, b4Vars, b6Vars, p5Vars, regVars, varVars, sbVars, lateVars>>

\* remove(index)
SSRemoveCall ==
    \E index \in Indices :
        /\ sset' = SSRemove(sset, index)
        /\ present' = [present EXCEPT ![index] = Undef]
        /\ ssLast' = [op |-> "remove", index |-> index,
                      ok |-> (SSRemoveRet(sset, index) # Undef),
                      val |-> SSRemoveRet(sset, index)]
        /\ UNCHANGED reAdded
        /\ UNCHANGED <<wVars, rVars, bVars, qVars, b4Vars, b6Vars, p5Vars, regVars, varVars, sbVars, lateVars>>

\* Component.get(index, type) on the store of the type: ok tells that a
\* wrapper was returned and val is the value inside it.
SSGetCall ==
    \E index \in Indices :
        /\ ssLast' = [op |-> "get", index |-> index,
                      ok |-> ~ComponentGetIsNull(sset, index),
                      val |-> ComponentGet(sset, index, TypeA).value]
        /\ UNCHANGED <<sset, present, reAdded>>
        /\ UNCHANGED <<wVars, rVars, bVars, qVars, b4Vars, b6Vars, p5Vars, regVars, varVars, sbVars, lateVars>>

SSNext == SSAddCall \/ SSRemoveCall \/ SSGetCall

SpecSparse == SSInit /\ [][SSNext]_vars

\* ----------------------------------------------- the World specification

WInit == WorldFresh /\ SSFresh /\ RunFresh /\ BaseFresh /\ QueryFresh /\ BitsetFresh /\ ByteBitsetFresh /\ PooledFresh /\ RegistryFresh /\ VariantsFresh /\ SparseBitFresh
    /\ LateFresh

\* World.create(...components): every component carries the same value.
Create ==
    \E types \in SUBSET Types, value \in Values :
        LET entity == NextEntity(cemetery, entities) IN
        /\ calls < MaxCalls
        /\ entity < MaxEntities
        /\ cemetery' = Pop(cemetery)
        /\ stores' = [t \in Types |->
                        IF t \in types THEN SSAdd(stores[t], entity, value) ELSE stores[t]]
        /\ queryCacheDirty' = DirtyQueriesMatching(queryCacheDirty, types)
        /\ entities' = PutWith(entities, entity, BitsetOf(types), HoleEntity)
        /\ wLast' = Call("create", entity, Undef, types, value, TRUE, "", <<>>)
        /\ calls' = calls + 1
        /\ UNCHANGED <<queryCache, ssVars, rVars, bVars, qVars, b4Vars, b6Vars, p5Vars, regVars, varVars, sbVars, lateVars>>

\* World.addComponent(entity, component) on a live entity.
AddComponent ==
    \E entity \in LiveEntities(entities), type \in Types, value \in Values :
        /\ calls < MaxCalls
        /\ stores' = ComponentSet(stores, entity, type, value)
        /\ entities' = SetBit(entities, entity, type, TRUE)
        /\ queryCacheDirty' =
            DirtyQueriesMatching(
                DirtyQueriesMatching(queryCacheDirty, SignatureOrNull(entities, entity)),
                SignatureOrNull(entities', entity))
        /\ wLast' = Call("addComponent", entity, type, {}, value, TRUE, "", <<>>)
        /\ calls' = calls + 1
        /\ UNCHANGED <<cemetery, queryCache, ssVars, rVars, bVars, qVars, b4Vars, b6Vars, p5Vars, regVars, varVars, sbVars, lateVars>>

\* World.removeComponent(entity, type)
RemoveComponent ==
    \E entity \in EntityIds, type \in Types :
        /\ calls < MaxCalls
        /\ stores' = [stores EXCEPT ![type] = SSRemove(@, entity)]
        /\ entities' = SetBit(entities, entity, type, FALSE)
        /\ queryCacheDirty' =
            DirtyQueriesMatching(
                DirtyQueriesMatching(queryCacheDirty, SignatureOrNull(entities, entity)),
                SignatureOrNull(entities', entity))
        /\ wLast' = Call("removeComponent", entity, type, {}, Undef,
                         SSRemoveRet(stores[type], entity) # JsNull, "", <<>>)
        /\ calls' = calls + 1
        /\ UNCHANGED <<cemetery, queryCache, ssVars, rVars, bVars, qVars, b4Vars, b6Vars, p5Vars, regVars, varVars, sbVars, lateVars>>

\* World.remove(entity)
Remove ==
    \E entity \in EntityIds :
        /\ calls < MaxCalls
        /\ Len(cemetery) < MaxCemetery
        /\ queryCacheDirty' =
            DirtyQueriesMatching(queryCacheDirty, SignatureOrNull(entities, entity))
        /\ stores' = RemoveAll(stores, entity).stores
        /\ entities' = PutWith(entities, entity, NullEntity, HoleEntity)
        /\ cemetery' = Append(cemetery, entity)
        /\ wLast' = Call("remove", entity, Undef, {}, Undef,
                         RemoveAll(stores, entity).result, "", <<>>)
        /\ calls' = calls + 1
        /\ UNCHANGED <<queryCache, ssVars, rVars, bVars, qVars, b4Vars, b6Vars, p5Vars, regVars, varVars, sbVars, lateVars>>

\* World.query(queryDefinition, callback), the callback leaving the world alone.
Query ==
    \E q \in QueryNames :
        LET list == IF queryCacheDirty[q] \in {"absent", "dirty"}
                    THEN RefreshQuery(QueryDefs[q], entities) ELSE queryCache[q]
            seen == Visited(entities, QueryDefs[q].paramTypes, list)
        IN
        /\ calls < MaxCalls
        /\ queryCache' = [queryCache EXCEPT ![q] = list]
        /\ queryCacheDirty' = [queryCacheDirty EXCEPT ![q] = "clean"]
        /\ wLast' = Call("query", Undef, Undef, {}, Undef,
                         Len(seen) = Len(list), q, seen)
        /\ calls' = calls + 1
        /\ UNCHANGED <<entities, cemetery, stores, ssVars, rVars, bVars, qVars, b4Vars, b6Vars, p5Vars, regVars, varVars, sbVars, lateVars>>

WNext == Create \/ AddComponent \/ RemoveComponent \/ Remove \/ Query

SpecWorld == WInit /\ [][WNext]_vars

\* ------------------------- World.query with a callback that mutates the world

\* What a callback does to the world on its first invocation.
Mutations == {"remove", "removeComponent"}

\* The fields of the World a call made from inside a callback changes.
WorldNow == [entities |-> entities, cemetery |-> cemetery, stores |-> stores,
             dirty |-> queryCacheDirty, threw |-> FALSE, seen |-> <<>>]

\* World.remove(entity), as a function of the World's fields.
WorldRemove(w, entity) ==
    [w EXCEPT !.dirty = DirtyQueriesMatching(w.dirty, SignatureOrNull(w.entities, entity)),
              !.stores = RemoveAll(w.stores, entity).stores,
              !.entities = PutWith(w.entities, entity, NullEntity, HoleEntity),
              !.cemetery = Append(w.cemetery, entity)]

\* World.removeComponent(entity, type), as a function of the World's fields.
WorldRemoveComponent(w, entity, type) ==
    LET after == SetBit(w.entities, entity, type, FALSE) IN
    [w EXCEPT !.stores = [w.stores EXCEPT ![type] = SSRemove(@, entity)],
              !.entities = after,
              !.dirty = DirtyQueriesMatching(
                            DirtyQueriesMatching(w.dirty, SignatureOrNull(w.entities, entity)),
                            SignatureOrNull(after, entity))]

\* The callback: its first invocation makes the call, the later ones nothing.
CallbackMutates(w, mutation, victim, type) ==
    IF Len(w.seen) # 1 THEN w
    ELSE IF mutation = "remove" THEN WorldRemove(w, victim)
    ELSE WorldRemoveComponent(w, victim, type)

\* World.query, the loop over the first n entities of the cached array:
\* World.get of the entity, which may throw, then the callback.
RECURSIVE QueryLoop(_, _, _, _, _, _, _)
QueryLoop(w, paramTypes, list, n, mutation, victim, type) ==
    IF n = 0 THEN w
    ELSE LET done == QueryLoop(w, paramTypes, list, n - 1, mutation, victim, type) IN
         IF done.threw THEN done
         ELSE IF GetThrows(done.entities, paramTypes, list[n]) THEN [done EXCEPT !.threw = TRUE]
         ELSE CallbackMutates([done EXCEPT !.seen = Append(@, list[n])], mutation, victim, type)

\* World.query(queryDefinition, callback), the callback removing an entity
\* the query lists later, or a queried component of one, when first invoked.
QueryMutating ==
    \E q \in QueryNames, mutation \in Mutations :
        LET dirty == queryCacheDirty[q] \in {"absent", "dirty"}
            list  == IF dirty THEN RefreshQuery(QueryDefs[q], entities) ELSE queryCache[q]
            start == [WorldNow EXCEPT !.dirty = [queryCacheDirty EXCEPT ![q] = "clean"]]
        IN
        \E at \in 2 .. Len(list), k \in 1 .. Len(QueryDefs[q].paramTypes) :
            LET victim == list[at]
                type   == QueryDefs[q].paramTypes[k]
                end    == QueryLoop(start, QueryDefs[q].paramTypes, list, Len(list),
                                    mutation, victim, type)
            IN
            /\ calls < MaxCalls
            /\ mutation = "remove" => Len(cemetery) < MaxCemetery
            /\ queryCache' = [queryCache EXCEPT ![q] = list]
            /\ queryCacheDirty' = end.dirty
            /\ entities' = end.entities
            /\ cemetery' = end.cemetery
            /\ stores' = end.stores
            /\ wLast' = Call("queryMutating", victim, IF mutation = "remove" THEN Undef ELSE type,
                             {}, Undef, ~end.threw, q, end.seen)
            /\ calls' = calls + 1
            /\ UNCHANGED <<ssVars, rVars, bVars, qVars, b4Vars, b6Vars, p5Vars, regVars, varVars, sbVars, lateVars>>

MNext == Create \/ AddComponent \/ RemoveComponent \/ Remove \/ Query \/ QueryMutating

SpecMutatingQuery == WInit /\ [][MNext]_vars

\* ------------------------------------- the world.ts World specification

RInit == RunFresh /\ WorldFresh /\ SSFresh /\ BaseFresh /\ QueryFresh /\ BitsetFresh /\ ByteBitsetFresh /\ PooledFresh /\ RegistryFresh /\ VariantsFresh /\ SparseBitFresh
    /\ LateFresh

\* Set.delete on the cached list copied into a Set.
Without(list, e) == SelectSeq(list, LAMBDA x : x # e)

\* Set.add: the insertion order is kept, a member is not added twice.
WithAdded(list, e) ==
    IF \E k \in 1 .. Len(list) : list[k] = e THEN list ELSE Append(list, e)

\* World._refreshQuery: the loop over the first n slots of _entities, starting
\* from the Set built of the list cached so far.
RECURSIVE RunRefreshUpTo(_, _, _, _)
RunRefreshUpTo(q, ents, cached, n) ==
    IF n = 0 THEN cached
    ELSE LET newSet == RunRefreshUpTo(q, ents, cached, n - 1) IN
         IF EntityAt(ents, n - 1).tag # "bitset" THEN Without(newSet, n - 1)
         ELSE IF SatisfiedBy(q, EntityAt(ents, n - 1).bits) THEN WithAdded(newSet, n - 1)
         ELSE newSet

\* World._refreshQuery
RunRefreshQuery(q, ents, cached) == RunRefreshUpTo(q, ents, cached, Len(ents))

\* new Array(length): every slot a hole.
NewArray(length) == [k \in 1 .. length |-> Undef]

\* SparseSet.__getBatch written column by column:
\* batch[offset * indices.length + i].
RECURSIVE GetBatchColumnMajor(_, _, _, _, _, _)
GetBatchColumnMajor(s, indices, batch, stride, offset, n) ==
    IF n = 0 THEN batch
    ELSE Put(GetBatchColumnMajor(s, indices, batch, stride, offset, n - 1),
             offset * Len(indices) + (n - 1),
             At(s.denseValue, s.sparse[indices[n]]))

\* SparseSet.__getBatch, the first n iterations of its loop:
\* batch[i * stride + offset] = _denseValue[_sparse[indices[i]]]
RECURSIVE GetBatchUpTo(_, _, _, _, _, _)
GetBatchUpTo(s, indices, batch, stride, offset, n) ==
    IF n = 0 THEN batch
    ELSE Put(GetBatchUpTo(s, indices, batch, stride, offset, n - 1),
             (n - 1) * stride + offset,
             At(s.denseValue, s.sparse[indices[n]]))

\* SparseSet.__getBatch(indices, batch, stride, offset): the batch afterwards.
GetBatch(s, indices, batch, stride, offset) ==
    GetBatchUpTo(s, indices, batch, stride, offset, Len(indices))

\* Component.getQueryComponents, the first m iterations of its loop over j.
RECURSIVE GetQueryComponentsUpTo(_, _, _, _)
GetQueryComponentsUpTo(st, entityList, types, m) ==
    IF m = 0 THEN NewArray(Len(entityList) * Len(types))
    ELSE GetBatch(st[types[m]], entityList,
                  GetQueryComponentsUpTo(st, entityList, types, m - 1),
                  Len(types), m - 1)

\* Component.getQueryComponents(entities, types)
GetQueryComponents(st, entityList, types) ==
    GetQueryComponentsUpTo(st, entityList, types, Len(types))

\* World.run, the loop over queriedEntities: what callback i receives, the
\* entity and, per accessor j, accessor.entity and accessor.data.
RunCallbacks(st, queriedEntities, types) ==
    LET typesLength     == Len(types)
        queryComponents == GetQueryComponents(st, queriedEntities, types)
    IN  [i \in 1 .. Len(queriedEntities) |->
            [entity    |-> queriedEntities[i],
             accessors |-> [j \in 1 .. typesLength |->
                              [component |-> types[j],
                               entity    |-> queriedEntities[i],
                               data      |-> At(queryComponents, (i - 1) * typesLength + (j - 1))]]]]

\* World.create()
RunCreate ==
    LET recycled == NextEntity(rCemetery, rEntities) IN
    /\ rCalls < MaxRunChanges
    /\ rCemetery' = Pop(rCemetery)
    /\ rEntities' = PutWith(rEntities, recycled, BitsetOf({}), HoleEntity)
    /\ rLast' = [op |-> "create", entity |-> recycled, type |-> Undef, query |-> "",
                 visited |-> <<>>, components |-> <<>>, handed |-> <<>>]
    /\ rCalls' = rCalls + 1
    /\ UNCHANGED <<rStores, rQueryCache, rDirtyQueries, ssVars, wVars, bVars, qVars, b4Vars, b6Vars, p5Vars, regVars, varVars, sbVars, lateVars>>

\* World.add(entity, type, value)
RunAdd ==
    \E entity \in 0 .. Len(rEntities) - 1, type \in Types, value \in Values :
        /\ rCalls < MaxRunChanges
        /\ rStores' = [rStores EXCEPT ![type] = SSAdd(@, entity, value)]
        /\ rEntities' = SetBit(rEntities, entity, type, TRUE)
        /\ rLast' = [op |-> "add", entity |-> entity, type |-> type, query |-> "",
                     visited |-> <<>>, components |-> <<>>, handed |-> <<>>]
        /\ rCalls' = rCalls + 1
        /\ UNCHANGED <<rCemetery, rQueryCache, rDirtyQueries, ssVars, wVars, bVars, qVars, b4Vars, b6Vars, p5Vars, regVars, varVars, sbVars, lateVars>>

\* World.run(query, callback), the callback leaving the world alone.
RunQuery ==
    \E q \in RunQueryNames :
        LET dirty == ~rQueryCache[q].has \/ q \in rDirtyQueries
            list == IF dirty
                    THEN RunRefreshQuery(RunQueryDefs[q], rEntities, rQueryCache[q].list)
                    ELSE rQueryCache[q].list
        IN
        /\ rCalls < MaxRunCalls
        /\ rQueryCache' = [rQueryCache EXCEPT ![q] = [has |-> TRUE, list |-> list]]
        /\ rDirtyQueries' = rDirtyQueries \ {q}
        /\ rLast' = [op |-> "run", entity |-> Undef, type |-> Undef, query |-> q,
                     visited |-> list,
                     components |-> GetQueryComponents(rStores, list, RunQueryDefs[q].paramTypes),
                     handed |-> RunCallbacks(rStores, list, RunQueryDefs[q].paramTypes)]
        /\ rCalls' = rCalls + 1
        /\ UNCHANGED <<rEntities, rCemetery, rStores, ssVars, wVars, bVars, qVars, b4Vars, b6Vars, p5Vars, regVars, varVars, sbVars, lateVars>>

RNext == RunCreate \/ RunAdd \/ RunQuery

SpecRun == RInit /\ [][RNext]_vars

\* --------------------- the specification of the World with base entities

BInit == BaseFresh /\ WorldFresh /\ SSFresh /\ RunFresh /\ QueryFresh /\ BitsetFresh /\ ByteBitsetFresh /\ PooledFresh /\ RegistryFresh /\ VariantsFresh /\ SparseBitFresh
    /\ LateFresh

\* The component types of instance entities (TypeA) and of base entities (TypeB).
InstanceTypes == {TypeA}
StaticTypes == {TypeB}

\* this._inheritance[entity]
PrototypeOf(inh, entity) == At(inh, entity)

\* this._staticEntities[prototype] ?? Bitset.null
StaticSignature(st, prototype) ==
    IF prototype = Undef THEN {} ELSE SignatureOrNull(st, prototype)

\* getUnchecked(index, type) of a store; the index may be undefined.
GetUncheckedAt(st, type, index) ==
    IF index \in DOMAIN st[type].sparse THEN SSGetUnchecked(st[type], index) ELSE Undef

\* World.get: the index looked up for a type is the entity when its instance
\* signature has the type's bit, and its prototype otherwise.
BaseGet(ents, inh, st, types, entity) ==
    [i \in 1 .. Len(types) |->
        GetUncheckedAt(st, types[i],
            IF types[i] \in SignatureOrNull(ents, entity)
            THEN entity ELSE PrototypeOf(inh, entity))]

\* World.dirtyQueriesMatching of the World with base entities.
BaseDirtyQueriesMatching(dirty, signature) ==
    [q \in BaseQueryNames |->
        IF dirty[q] # "absent" /\ SatisfiedBy(BaseQueryDefs[q], signature)
        THEN "dirty" ELSE dirty[q]]

\* World.refreshQuery, the loop over the first n slots of _entities: the
\* signature looked at is _compoundEntities[i], and satisfiedBy of a slot
\* that holds none throws.
RECURSIVE BaseRefreshUpTo(_, _, _)
BaseRefreshUpTo(q, compound, n) ==
    IF n = 0 THEN [list |-> <<>>, threw |-> FALSE]
    ELSE LET done == BaseRefreshUpTo(q, compound, n - 1) IN
         IF done.threw THEN done
         ELSE IF EntityAt(compound, n - 1).tag # "bitset" THEN [list |-> done.list, threw |-> TRUE]
         ELSE IF SatisfiedBy(q, EntityAt(compound, n - 1).bits)
              THEN [list |-> Append(done.list, n - 1), threw |-> FALSE]
              ELSE done

\* World.refreshQuery
BaseRefreshQuery(q, ents, compound) == BaseRefreshUpTo(q, compound, Len(ents))

\* World.create(from, ...components)
BaseCreate ==
    \E from \in {-1} \cup EntityIds, types \in SUBSET InstanceTypes, value \in Values :
        LET entity == NextEntity(bCemetery, bEntities)
            inh == IF from # -1 THEN Put(bInheritance, entity, from) ELSE bInheritance
        IN
        /\ bCalls < MaxCalls
        /\ entity < MaxEntities
        /\ bCemetery' = Pop(bCemetery)
        /\ bInheritance' = inh
        /\ bStores' = [t \in Types |->
                         IF t \in types THEN SSAdd(bStores[t], entity, value)
                         ELSE bStores[t]]
        /\ bEntities' = PutWith(bEntities, entity, BitsetOf(types), HoleEntity)
        /\ bCompound' = PutWith(bCompound, entity,
                            BitsetOf(types \cup StaticSignature(bStatic, PrototypeOf(inh, entity))),
                            HoleEntity)
        /\ bLast' = [op |-> "create", entity |-> entity, types |-> <<>>, ok |-> TRUE,
                     result |-> <<>>]
        /\ bQueryCacheDirty' =
            BaseDirtyQueriesMatching(bQueryCacheDirty,
                types \cup StaticSignature(bStatic, PrototypeOf(inh, entity)))
        /\ bCalls' = bCalls + 1
        /\ UNCHANGED <<bStatic, ssVars, wVars, rVars, qVars, b4Vars, b6Vars, p5Vars, regVars, varVars, sbVars, notBqVars, bQueryCache>>

\* World.createStatic(name, ...components) with a name not used before.
BaseCreateStatic ==
    \E types \in SUBSET StaticTypes, value \in Values :
        LET entity == Len(bStatic) IN
        /\ bCalls < MaxCalls
        /\ entity < MaxEntities
        /\ bStores' = [t \in Types |->
                         IF t \in types THEN SSAdd(bStores[t], entity, value)
                         ELSE bStores[t]]
        /\ bStatic' = PutWith(bStatic, entity, BitsetOf(types), HoleEntity)
        /\ bLast' = [op |-> "createStatic", entity |-> entity, types |-> <<>>,
                     ok |-> TRUE, result |-> <<>>]
        /\ bCalls' = bCalls + 1
        /\ UNCHANGED <<bEntities, bCompound, bInheritance, bCemetery, ssVars, wVars, rVars, qVars, b4Vars, b6Vars, p5Vars, regVars, varVars, sbVars, lateVars>>

\* World.remove(entity): delete this._entities[entity] leaves a hole and does
\* not extend the array.
BaseRemove ==
    \E entity \in EntityIds :
        /\ bCalls < MaxCalls
        /\ Len(bCemetery) < MaxCemetery
        /\ bStores' = RemoveAll(bStores, entity).stores
        /\ bEntities' = IF entity < Len(bEntities)
                        THEN PutWith(bEntities, entity, HoleEntity, HoleEntity)
                        ELSE bEntities
        /\ bCemetery' = Append(bCemetery, entity)
        /\ bLast' = [op |-> "remove", entity |-> entity, types |-> <<>>,
                     ok |-> RemoveAll(bStores, entity).result, result |-> <<>>]
        /\ bQueryCacheDirty' =
            BaseDirtyQueriesMatching(bQueryCacheDirty, SignatureOrNull(bEntities, entity))
        /\ bCalls' = bCalls + 1
        /\ UNCHANGED <<bCompound, bInheritance, bStatic, ssVars, wVars, rVars, qVars, b4Vars, b6Vars, p5Vars, regVars, varVars, sbVars, notBqVars, bQueryCache>>

\* World.get(types, entity): no statement of it throws.
BaseGetCall ==
    \E types \in {<<TypeA>>, <<TypeB>>, <<TypeA, TypeB>>}, entity \in EntityIds :
        /\ bCalls < MaxCalls
        /\ bLast' = [op |-> "get", entity |-> entity, types |-> types, ok |-> TRUE,
                     result |-> BaseGet(bEntities, bInheritance, bStores, types, entity)]
        /\ bCalls' = bCalls + 1
        /\ UNCHANGED <<bEntities, bCompound, bInheritance, bStatic, bCemetery, bStores,
                       ssVars, wVars, rVars, qVars, b4Vars, b6Vars, p5Vars, regVars, varVars, sbVars, lateVars>>

\* World.query(queryDefinition, callback) and entityCount(def), which is a
\* query with a counting callback: result lists the entities the callback
\* was invoked for.
BaseQuery ==
    \E q \in BaseQueryNames :
        LET dirty   == bQueryCacheDirty[q] \in {"absent", "dirty"}
            refresh == BaseRefreshQuery(BaseQueryDefs[q], bEntities, bCompound)
            threw   == dirty /\ refresh.threw
            list    == IF dirty THEN refresh.list ELSE bQueryCache[q]
        IN
        /\ bCalls < MaxCalls
        /\ bQueryCache' = [bQueryCache EXCEPT ![q] = list]
        /\ bQueryCacheDirty' = IF threw THEN bQueryCacheDirty
                               ELSE [bQueryCacheDirty EXCEPT ![q] = "clean"]
        /\ bLast' = [op |-> "query", entity |-> Undef, types |-> BaseQueryDefs[q].paramTypes,
                     ok |-> ~threw, result |-> IF threw THEN <<>> ELSE list]
        /\ bCalls' = bCalls + 1
        /\ UNCHANGED <<bEntities, bCompound, bInheritance, bStatic, bCemetery, bStores,
                       ssVars, wVars, rVars, qVars, b4Vars, b6Vars, p5Vars, regVars, varVars, sbVars, notBqVars>>

\* World.entityQuery(queryDefinition, callback): _queryCache.get(def) ?? true
\* is never false, so the query is refreshed on every call.
BaseEntityQuery ==
    \E q \in BaseQueryNames :
        LET refresh == BaseRefreshQuery(BaseQueryDefs[q], bEntities, bCompound) IN
        /\ bCalls < MaxCalls
        /\ bQueryCache' = [bQueryCache EXCEPT ![q] = refresh.list]
        /\ bQueryCacheDirty' = IF refresh.threw THEN bQueryCacheDirty
                               ELSE [bQueryCacheDirty EXCEPT ![q] = "clean"]
        /\ bLast' = [op |-> "entityQuery", entity |-> Undef,
                     types |-> BaseQueryDefs[q].paramTypes,
                     ok |-> ~refresh.threw,
                     result |-> IF refresh.threw THEN <<>> ELSE refresh.list]
        /\ bCalls' = bCalls + 1
        /\ UNCHANGED <<bEntities, bCompound, bInheritance, bStatic, bCemetery, bStores,
                       ssVars, wVars, rVars, qVars, b4Vars, b6Vars, p5Vars, regVars, varVars, sbVars, notBqVars>>

BNext == BaseCreate \/ BaseCreateStatic \/ BaseRemove \/ BaseGetCall \/ BaseQuery \/ BaseEntityQuery

SpecBase == BInit /\ [][BNext]_vars

\* ------------------------------------- the QueryDefinition specification

QInit == QueryFresh /\ SSFresh /\ WorldFresh /\ RunFresh /\ BaseFresh /\ BitsetFresh /\ ByteBitsetFresh /\ PooledFresh /\ RegistryFresh /\ VariantsFresh /\ SparseBitFresh
    /\ LateFresh

\* The argument lists passed to the builder methods.
TypeLists == {<<TypeA>>, <<TypeB>>, <<TypeA, TypeB>>}

\* Component.bitsetFromTypes(...types)
BitsetFromTypes(types) == {types[k] : k \in 1 .. Len(types)}

\* A builder call that threw: the query is as it was.
Threw(op) == qbLast' = [op |-> op, threw |-> TRUE] /\ UNCHANGED qb

\* withAll(...types)
WithAll ==
    \E types \in TypeLists :
        /\ IF Cardinality(qb.withOnly) # 0 THEN Threw("withAll")
           ELSE /\ qb' = [qb EXCEPT !.paramTypes = types, !.withAll = BitsetFromTypes(types)]
                /\ qbLast' = [op |-> "withAll", threw |-> FALSE]
        /\ UNCHANGED <<ssVars, wVars, rVars, bVars, b4Vars, b6Vars, p5Vars, regVars, varVars, sbVars, lateVars>>

\* withNone(...types)
WithNone ==
    \E types \in TypeLists :
        /\ IF Cardinality(qb.withOnly) # 0 THEN Threw("withNone")
           ELSE /\ qb' = [qb EXCEPT !.withNone = BitsetFromTypes(types)]
                /\ qbLast' = [op |-> "withNone", threw |-> FALSE]
        /\ UNCHANGED <<ssVars, wVars, rVars, bVars, b4Vars, b6Vars, p5Vars, regVars, varVars, sbVars, lateVars>>

\* withOne(...types)
WithOne ==
    \E types \in TypeLists :
        /\ IF Cardinality(qb.withOnly) # 0 THEN Threw("withOne")
           ELSE /\ qb' = [qb EXCEPT !.withOne = BitsetFromTypes(types)]
                /\ qbLast' = [op |-> "withOne", threw |-> FALSE]
        /\ UNCHANGED <<ssVars, wVars, rVars, bVars, b4Vars, b6Vars, p5Vars, regVars, varVars, sbVars, lateVars>>

\* withSome(...types): there is no check.
WithSome ==
    \E types \in TypeLists :
        /\ qb' = [qb EXCEPT !.withSome = BitsetFromTypes(types)]
        /\ qbLast' = [op |-> "withSome", threw |-> FALSE]
        /\ UNCHANGED <<ssVars, wVars, rVars, bVars, b4Vars, b6Vars, p5Vars, regVars, varVars, sbVars, lateVars>>

\* withOnly(...types): only withAll and withNone are checked.
WithOnly ==
    \E types \in TypeLists :
        /\ IF Cardinality(qb.withAll) # 0 \/ Cardinality(qb.withNone) # 0
           THEN Threw("withOnly")
           ELSE /\ qb' = [qb EXCEPT !.paramTypes = types, !.withOnly = BitsetFromTypes(types)]
                /\ qbLast' = [op |-> "withOnly", threw |-> FALSE]
        /\ UNCHANGED <<ssVars, wVars, rVars, bVars, b4Vars, b6Vars, p5Vars, regVars, varVars, sbVars, lateVars>>

QNext == WithAll \/ WithNone \/ WithOne \/ WithSome \/ WithOnly

SpecQuery == QInit /\ [][QNext]_vars

\* ------------------------------------- the bit-packed Bitset specification

BitsetInit ==
    BitsetFresh /\ SSFresh /\ WorldFresh /\ RunFresh /\ BaseFresh /\ QueryFresh
    /\ ByteBitsetFresh /\ PooledFresh /\ RegistryFresh /\ VariantsFresh /\ SparseBitFresh
    /\ LateFresh

\* What a Bitset call leaves alone.
B4Frame ==
    UNCHANGED <<ssVars, wVars, rVars, bVars, qVars, b6Vars, p5Vars, regVars, varVars, sbVars, lateVars>>

B4Called(op, recv, arg, index, value, result) ==
    /\ b4Last' = [op |-> op, recv |-> recv, arg |-> arg, index |-> index,
                  value |-> value, result |-> result]
    /\ b4Calls' = b4Calls + 1

\* recv.set(index, value)
B4SetCall ==
    \E n \in BitsetNames, index \in BitIndices, value \in BOOLEAN :
        /\ b4Calls < MaxBitCalls
        /\ b4' = [b4 EXCEPT ![n] = B4Set(@, index, value)]
        /\ B4Called("set", n, n, index, value, FALSE)
        /\ B4Frame

\* recv.and(arg)
B4AndCall ==
    \E n \in BitsetNames, m \in BitsetNames :
        /\ b4Calls < MaxBitCalls
        /\ b4' = [b4 EXCEPT ![n] = B4And(b4[n], b4[m])]
        /\ B4Called("and", n, m, 0, FALSE, FALSE)
        /\ B4Frame

\* recv.or(arg)
B4OrCall ==
    \E n \in BitsetNames, m \in BitsetNames :
        /\ b4Calls < MaxBitCalls
        /\ b4' = [b4 EXCEPT ![n] = B4Or(b4[n], b4[m])]
        /\ B4Called("or", n, m, 0, FALSE, FALSE)
        /\ B4Frame

\* recv.xor(arg)
B4XorCall ==
    \E n \in BitsetNames, m \in BitsetNames :
        /\ b4Calls < MaxBitCalls
        /\ b4' = [b4 EXCEPT ![n] = B4Xor(b4[n], b4[m])]
        /\ B4Called("xor", n, m, 0, FALSE, FALSE)
        /\ B4Frame

\* recv.not()
B4NotCall ==
    \E n \in BitsetNames :
        /\ b4Calls < MaxBitCalls
        /\ b4' = [b4 EXCEPT ![n] = B4Not(@)]
        /\ B4Called("not", n, n, 0, FALSE, FALSE)
        /\ B4Frame

\* recv.clear()
B4ClearCall ==
    \E n \in BitsetNames :
        /\ b4Calls < MaxBitCalls
        /\ b4' = [b4 EXCEPT ![n] = B4Clear(@)]
        /\ B4Called("clear", n, n, 0, FALSE, FALSE)
        /\ B4Frame

\* recv.equals(arg)
B4EqualsCall ==
    \E n \in BitsetNames, m \in BitsetNames :
        /\ b4Calls < MaxBitCalls
        /\ B4Called("equals", n, m, 0, FALSE, B4Equal(b4[n], b4[m]))
        /\ UNCHANGED b4
        /\ B4Frame

B4Next ==
    B4SetCall \/ B4AndCall \/ B4OrCall \/ B4XorCall \/ B4NotCall \/ B4ClearCall
    \/ B4EqualsCall

SpecBitset == BitsetInit /\ [][B4Next]_vars

\* --------------------------------- the byte-per-flag Bitset specification

ByteBitsetInit ==
    ByteBitsetFresh /\ SSFresh /\ WorldFresh /\ RunFresh /\ BaseFresh /\ QueryFresh
    /\ BitsetFresh /\ PooledFresh /\ RegistryFresh /\ VariantsFresh /\ SparseBitFresh
    /\ LateFresh

B6Frame ==
    UNCHANGED <<ssVars, wVars, rVars, bVars, qVars, b4Vars, p5Vars, regVars, varVars, sbVars, lateVars>>

\* recv.set(index, value)
B6SetCall ==
    \E n \in ByteBitsetNames, index \in FlagIndices, value \in BOOLEAN :
        /\ b6' = [b6 EXCEPT ![n] = B6Set(@, index, value)]
        /\ b6Last' = [op |-> "set", recv |-> n, index |-> index, value |-> value,
                      result |-> FALSE]
        /\ B6Frame

\* recv.get(index)
B6GetCall ==
    \E n \in ByteBitsetNames, index \in FlagIndices :
        /\ b6Last' = [op |-> "get", recv |-> n, index |-> index, value |-> FALSE,
                      result |-> B6Get(b6[n], index)]
        /\ UNCHANGED b6
        /\ B6Frame

\* recv.clear()
B6ClearCall ==
    \E n \in ByteBitsetNames :
        /\ b6' = [b6 EXCEPT ![n] = B6Clear(@)]
        /\ b6Last' = [op |-> "clear", recv |-> n, index |-> 0, value |-> FALSE,
                      result |-> FALSE]
        /\ B6Frame

B6Next == B6SetCall \/ B6GetCall \/ B6ClearCall

SpecByteBitset == ByteBitsetInit /\ [][B6Next]_vars

\* ------------------------------------- the pooled Bitset specification

PooledInit ==
    PooledFresh /\ SSFresh /\ WorldFresh /\ RunFresh /\ BaseFresh /\ QueryFresh
    /\ BitsetFresh /\ ByteBitsetFresh /\ RegistryFresh /\ VariantsFresh /\ SparseBitFresh
    /\ LateFresh

P5Frame ==
    UNCHANGED <<ssVars, wVars, rVars, bVars, qVars, b4Vars, b6Vars, regVars, varVars, sbVars, lateVars>>

\* The pooled Bitsets that exist: Bitset.null has memIndex 0.
Allocated == 0 .. memSize - 1

\* The static state as one value, and the step that stores one.
PoolState ==
    [mem |-> memArray, size |-> memSize, pool |-> instancePool, counts |-> setFlagCount]

P5Becomes(st) ==
    /\ memArray' = st.mem
    /\ memSize' = st.size
    /\ instancePool' = st.pool
    /\ setFlagCount' = st.counts

\* A call that rents can be made: the pool has an instance or a slot is left.
CanRent == Len(instancePool) > 0 \/ memSize < MaxBitsets

\* new Bitset()
P5New ==
    /\ p5Calls < MaxPoolCalls
    /\ memSize < MaxBitsets
    /\ P5Becomes(P5Construct(PoolState).st)
    /\ p5Last' = P5Call("new", memSize, 0, 0, 0, FALSE, FALSE, FALSE)
    /\ p5Calls' = p5Calls + 1
    /\ P5Frame

\* Bitset.rent()
P5RentCall ==
    /\ p5Calls < MaxPoolCalls
    /\ CanRent
    /\ P5Becomes(P5Rent(PoolState).st)
    /\ p5Last' = P5Call("rent", P5Rent(PoolState).rented, 0, 0, 0, FALSE, FALSE, FALSE)
    /\ p5Calls' = p5Calls + 1
    /\ P5Frame

\* Bitset.return(bitset)
P5ReturnCall ==
    \E k \in Allocated :
        /\ p5Calls < MaxPoolCalls
        /\ P5Becomes(P5Return(PoolState, k))
        /\ p5Last' = P5Call("return", k, 0, 0, 0, FALSE, FALSE, FALSE)
        /\ p5Calls' = p5Calls + 1
        /\ P5Frame

\* set(index, value) on the Bitset at memIndex
P5SetCall ==
    \E k \in Allocated, index \in PoolIndices, value \in BOOLEAN :
        /\ p5Calls < MaxPoolCalls
        /\ memArray' = P5Set(memArray, k, index, value)
        /\ setFlagCount' = [setFlagCount EXCEPT ![k] =
                               @ + BoolToNum(value) + BoolToNum(P5Get(memArray, k, index))]
        /\ p5Last' = P5Call("set", k, 0, 0, index, value, FALSE, FALSE)
        /\ p5Calls' = p5Calls + 1
        /\ UNCHANGED <<memSize, instancePool>>
        /\ P5Frame

\* get(index) on the Bitset at memIndex
P5GetCall ==
    \E k \in Allocated, index \in PoolIndices :
        /\ p5Calls < MaxPoolCalls
        /\ p5Last' = P5Call("get", k, 0, 0, index, FALSE, P5Get(memArray, k, index), FALSE)
        /\ p5Calls' = p5Calls + 1
        /\ UNCHANGED <<memArray, memSize, instancePool, setFlagCount>>
        /\ P5Frame

\* The argument lists of the static combinators: none, or two bitsets.
StaticArguments == {<<>>} \cup {<<x, y>> : x \in Allocated, y \in Allocated}

StaticName(op) ==
    CASE op = "and" -> "Bitset.and" [] op = "or" -> "Bitset.or" [] op = "xor" -> "Bitset.xor"

\* Bitset.and(...bitsets), Bitset.or(...bitsets), Bitset.xor(...bitsets):
\* none of them throws.
P5StaticCall ==
    \E op \in {"and", "or", "xor"}, bitsets \in StaticArguments :
        /\ p5Calls < MaxPoolCalls
        /\ CanRent
        /\ P5Becomes(P5Static(op, PoolState, bitsets).st)
        /\ p5Last' = P5Call(StaticName(op), P5Static(op, PoolState, bitsets).rented, 0,
                            Len(bitsets), 0, FALSE, FALSE, FALSE)
        /\ p5Calls' = p5Calls + 1
        /\ P5Frame

\* this.isSubsetOf(other)
P5IsSubsetOfCall ==
    \E this \in Allocated, other \in Allocated :
        /\ p5Calls < MaxPoolCalls
        /\ CanRent
        /\ P5Becomes(P5IsSubsetOf(PoolState, this, other).st)
        /\ p5Last' = P5Call("isSubsetOf", this, other, 0, 0, FALSE,
                            P5IsSubsetOf(PoolState, this, other).result, FALSE)
        /\ p5Calls' = p5Calls + 1
        /\ P5Frame

\* this.isSupersetOf(other)
P5IsSupersetOfCall ==
    \E this \in Allocated, other \in Allocated :
        /\ p5Calls < MaxPoolCalls
        /\ CanRent
        /\ P5Becomes(P5IsSupersetOf(PoolState, this, other).st)
        /\ p5Last' = P5Call("isSupersetOf", this, other, 0, 0, FALSE,
                            P5IsSupersetOf(PoolState, this, other).result, FALSE)
        /\ p5Calls' = p5Calls + 1
        /\ P5Frame

P5Next ==
    P5New \/ P5RentCall \/ P5ReturnCall \/ P5SetCall \/ P5GetCall \/ P5StaticCall
    \/ P5IsSubsetOfCall \/ P5IsSupersetOfCall

SpecPooledBitset == PooledInit /\ [][P5Next]_vars

\* -------------------------------- the Component registry specification

RegistryInit ==
    RegistryFresh /\ SSFresh /\ WorldFresh /\ RunFresh /\ BaseFresh /\ QueryFresh
    /\ BitsetFresh /\ ByteBitsetFresh /\ PooledFresh /\ VariantsFresh /\ SparseBitFresh
    /\ LateFresh

RegFrame ==
    UNCHANGED <<ssVars, wVars, rVars, bVars, qVars, b4Vars, b6Vars, p5Vars, varVars, sbVars, lateVars>>

\* new Component(type): the id is ++_idCounter; `ident` tells the instances
\* (and their _instances stores) apart.
NewComponent == [ident |-> created + 1, id |-> idCounter + 1]

\* Component.T(type): _statics.get(type) ?? addUnchecked(type)
RegT ==
    \E type \in TypeDescs :
        LET static == StaticsGet(statics, type) IN
        IF static # NoComponent
        THEN /\ regLast' = [op |-> "T", type |-> type, component |-> static,
                            existed |-> TRUE, signature |-> {}]
             /\ UNCHANGED <<statics, idMap, idCounter, created>>
             /\ RegFrame
        ELSE /\ created < MaxComponents
             /\ created' = created + 1
             /\ idCounter' = idCounter + 1
             /\ idMap' = [idMap EXCEPT ![type] = NewComponent.id]
             /\ statics' = [statics EXCEPT ![type] = NewComponent]
             /\ regLast' = [op |-> "T", type |-> type, component |-> NewComponent,
                            existed |-> FALSE, signature |-> {}]
             /\ RegFrame

\* Component.dispose(): _statics is cleared and _idCounter reset; _idMap is
\* left as it is.
RegDispose ==
    /\ statics' = [t \in TypeDescs |-> NoComponent]
    /\ idCounter' = 0
    /\ regLast' = [op |-> "dispose", type |-> "", component |-> NoComponent,
                   existed |-> FALSE, signature |-> {}]
    /\ UNCHANGED <<idMap, created>>
    /\ RegFrame

\* Component.bitsetFromTypes(type): a rented Bitset with bit _idMap.get(type)
\* set, for a type that has an entry in _idMap.
RegSignature(type) == {idMap[type]}

RegBitsetFromTypes ==
    \E type \in TypeDescs :
        /\ idMap[type] # Undef
        /\ regLast' = [op |-> "bitsetFromTypes", type |-> type, component |-> NoComponent,
                       existed |-> FALSE, signature |-> RegSignature(type)]
        /\ UNCHANGED <<statics, idMap, idCounter, created>>
        /\ RegFrame

RegNext == RegT \/ RegDispose \/ RegBitsetFromTypes

SpecRegistry == RegistryInit /\ [][RegNext]_vars

\* -------------------------------- the sparse-set variants specification

VariantsInit ==
    VariantsFresh /\ SSFresh /\ WorldFresh /\ RunFresh /\ BaseFresh /\ QueryFresh
    /\ BitsetFresh /\ ByteBitsetFresh /\ PooledFresh /\ RegistryFresh /\ SparseBitFresh
    /\ LateFresh

VarFrame ==
    UNCHANGED <<ssVars, wVars, rVars, bVars, qVars, b4Vars, b6Vars, p5Vars, regVars, sbVars, lateVars>>

\* add(index, value) on the three sets; SparseTagSet.add takes the index only.
VarAdd ==
    \E index \in Indices, value \in BoolValues :
        /\ vSet' = SSAdd(vSet, index, value)
        /\ vBit' = MapAdd(vBit, index, value)
        /\ vTag' = TagAdd(vTag, index)
        /\ vLast' = [op |-> "add", index |-> index, value |-> value,
                     added |-> <<SSAddRet(vSet, index), MapAddRet(vBit, index),
                                 TagAddRet(vTag, index)>>,
                     removed |-> <<Undef, Undef, Undef>>]
        /\ VarFrame

\* remove(index) on the three sets
VarRemove ==
    \E index \in Indices :
        /\ vSet' = SSRemove(vSet, index)
        /\ vBit' = MapRemove(vBit, index)
        /\ vTag' = TagRemove(vTag, index)
        /\ vLast' = [op |-> "remove", index |-> index, value |-> Undef,
                     added |-> <<FALSE, FALSE, FALSE>>,
                     removed |-> <<SSRemoveRet(vSet, index), MapRemoveRet(vBit, index),
                                   TagRemoveRet(vTag, index)>>]
        /\ VarFrame

VarNext == VarAdd \/ VarRemove

SpecVariants == VariantsInit /\ [][VarNext]_vars

\* ------------------------- the Bitset-backed SparseBitSet specification

SparseBitInit ==
    SparseBitFresh /\ SSFresh /\ WorldFresh /\ RunFresh /\ BaseFresh /\ QueryFresh
    /\ BitsetFresh /\ ByteBitsetFresh /\ PooledFresh /\ RegistryFresh /\ VariantsFresh
    /\ LateFresh

SbsFrame ==
    UNCHANGED <<ssVars, wVars, rVars, bVars, qVars, b4Vars, b6Vars, p5Vars, regVars, varVars, lateVars>>

\* add(index, value)
SbsAddCall ==
    \E index \in Indices, value \in BoolValues :
        /\ sbs' = SbsAdd(sbs, index, value)
        /\ sbsPresent' = IF sbsPresent[index] = Undef
                         THEN [sbsPresent EXCEPT ![index] = value] ELSE sbsPresent
        /\ sbsAdded' = sbsAdded \cup {index}
        /\ sbsReAdded' = (sbsReAdded \/ index \in sbsAdded)
        /\ sbsLast' = [op |-> "add", index |-> index, value |-> value,
                       ok |-> SbsAddRet(sbs, index), ret |-> Undef, threw |-> FALSE]
        /\ SbsFrame

\* remove(index)
SbsRemoveCall ==
    \E index \in Indices :
        /\ sbs' = SbsRemove(sbs, index)
        /\ sbsPresent' = [sbsPresent EXCEPT ![index] = Undef]
        /\ sbsLast' = [op |-> "remove", index |-> index, value |-> Undef,
                       ok |-> ~SbsRemoveThrows(sbs, index),
                       ret |-> IF SbsRemoveThrows(sbs, index) THEN Undef
                               ELSE SbsRemoveRet(sbs, index),
                       threw |-> SbsRemoveThrows(sbs, index)]
        /\ UNCHANGED <<sbsAdded, sbsReAdded>>
        /\ SbsFrame

SbsNext == SbsAddCall \/ SbsRemoveCall

SpecSparseBit == SparseBitInit /\ [][SbsNext]_vars

\* ------------------------------------- the World.update specification

EarlyFresh ==
    SSFresh /\ WorldFresh /\ RunFresh /\ BaseFresh /\ QueryFresh /\ BitsetFresh
    /\ ByteBitsetFresh /\ PooledFresh /\ RegistryFresh /\ VariantsFresh /\ SparseBitFresh

earlyVars == <<ssVars, wVars, rVars, bVars, qVars, b4Vars, b6Vars, p5Vars, regVars, varVars, sbVars>>

SystemsInit == EarlyFresh /\ LateFresh

SysFrame == UNCHANGED <<earlyVars, bqVars, mutVars, barkVars>>

\* registerSystem(system)
SysRegisterSystem ==
    \E system \in SystemIds :
        /\ sysCalls < MaxSysCalls
        /\ systems' = RegisterSystem(systems, system)
        /\ sysRegistered' = sysRegistered \cup {system}
        /\ sysTwice' = (sysTwice \/ system \in sysRegistered)
        /\ sysLast' = [op |-> "registerSystem", ok |-> RegisterSystemRet(systems, system),
                       dirtyBefore |-> {}, trace |-> <<>>]
        /\ sysCalls' = sysCalls + 1
        /\ UNCHANGED sysDirty
        /\ SysFrame

\* registerSystems(a, b)
SysRegisterSystems ==
    \E a \in SystemIds, b \in SystemIds :
        /\ sysCalls < MaxSysCalls
        /\ systems' = RegisterSystems(systems, <<a, b>>)
        /\ sysRegistered' = sysRegistered \cup {a, b}
        /\ sysTwice' = (sysTwice \/ a = b \/ a \in sysRegistered \/ b \in sysRegistered)
        /\ sysLast' = [op |-> "registerSystems", ok |-> TRUE, dirtyBefore |-> {}, trace |-> <<>>]
        /\ sysCalls' = sysCalls + 1
        /\ UNCHANGED sysDirty
        /\ SysFrame

\* query(def, callback), as far as the dirty flags go: refreshQuery(def) when
\* the flag is missing or true.
SysQuery ==
    \E def \in SysQueryDefs :
        /\ sysCalls < MaxSysCalls
        /\ sysDirty' = IF DirtyGet(sysDirty, def) = 0 THEN sysDirty
                       ELSE DirtySet(sysDirty, def, FALSE)
        /\ sysLast' = [op |-> "query", ok |-> TRUE, dirtyBefore |-> {}, trace |-> <<>>]
        /\ sysCalls' = sysCalls + 1
        /\ UNCHANGED <<systems, sysRegistered, sysTwice>>
        /\ SysFrame

\* A call that changes a signature (create, addComponent, removeComponent,
\* remove), as far as the dirty flags go: dirtyQueriesMatching.
SysChange ==
    \E matching \in SUBSET SysQueryDefs :
        /\ sysCalls < MaxSysCalls
        /\ matching # {}
        /\ sysDirty' = SysDirtyQueriesMatching(sysDirty, matching)
        /\ sysLast' = [op |-> "change", ok |-> TRUE, dirtyBefore |-> {}, trace |-> <<>>]
        /\ sysCalls' = sysCalls + 1
        /\ UNCHANGED <<systems, sysRegistered, sysTwice>>
        /\ SysFrame

\* update()
SysUpdate ==
    LET done == Update(sysDirty, systems) IN
    /\ sysCalls < MaxSysCalls
    /\ sysDirty' = done.map
    /\ sysLast' = [op |-> "update", ok |-> TRUE,
                   dirtyBefore |-> {sysDirty[k].def : k \in {j \in 1 .. Len(sysDirty) : sysDirty[j].value}},
                   trace |-> done.trace]
    /\ sysCalls' = sysCalls + 1
    /\ UNCHANGED <<systems, sysRegistered, sysTwice>>
    /\ SysFrame

SysNext == SysRegisterSystem \/ SysRegisterSystems \/ SysQuery \/ SysChange \/ SysUpdate

SpecSystems == SystemsInit /\ [][SysNext]_vars

\* ------------------------------------------ the Component.mutate specification

MutateInit == EarlyFresh /\ LateFresh

MutFrame == UNCHANGED <<earlyVars, sysVars, bqVars, barkVars>>

\* Component.add(entity, value)
MutAdd ==
    \E entity \in Indices, value \in MutValues :
        /\ mCalls < MaxMutCalls
        /\ mStore' = SSAdd(mStore, entity, value)
        /\ mPresent' = IF mPresent[entity] = Undef
                       THEN [mPresent EXCEPT ![entity] = value] ELSE mPresent
        /\ mLast' = [op |-> "add", entity |-> entity, called |-> FALSE, arg |-> Undef, ret |-> Undef]
        /\ mCalls' = mCalls + 1
        /\ MutFrame

\* Component.remove(entity)
MutRemove ==
    \E entity \in Indices :
        /\ mCalls < MaxMutCalls
        /\ mStore' = SSRemove(mStore, entity)
        /\ mPresent' = [mPresent EXCEPT ![entity] = Undef]
        /\ mLast' = [op |-> "remove", entity |-> entity, called |-> FALSE, arg |-> Undef, ret |-> Undef]
        /\ mCalls' = mCalls + 1
        /\ MutFrame

\* Component.mutate(entity, mutator), the mutator returning ret whatever it
\* is given.
MutMutate ==
    \E entity \in Indices, ret \in MutValues \cup {Undef} :
        LET current == MutGet(mStore, entity) IN
        /\ mCalls < MaxMutCalls
        /\ mStore' = ComponentMutate(mStore, entity, ret)
        /\ mPresent' = IF mPresent[entity] # Undef /\ ret # Undef
                       THEN [mPresent EXCEPT ![entity] = ret] ELSE mPresent
        /\ mLast' = [op |-> "mutate", entity |-> entity,
                     called |-> MutatorIsCalled(current),
                     arg |-> IF MutatorIsCalled(current) THEN current ELSE Undef,
                     ret |-> ret]
        /\ mCalls' = mCalls + 1
        /\ MutFrame

MutNext == MutAdd \/ MutRemove \/ MutMutate

SpecMutate == MutateInit /\ [][MutNext]_vars

\* ----------------------------------------------------- the Bark specification

BarkInit == EarlyFresh /\ LateFresh

BarkFrame == UNCHANGED <<earlyVars, sysVars, bqVars, mutVars>>

\* Bark.registerRunGroup(group)
BarkRegisterRunGroup ==
    \E group \in BarkGroups :
        /\ barkCalls < MaxBarkCalls
        /\ IF Includes(barkRunGroups, group)
           THEN /\ UNCHANGED <<bark, barkRunGroups>>
                /\ barkLast' = [op |-> "registerRunGroup", ctor |-> 0, group |-> group,
                                event |-> 0, listener |-> 0, ok |-> FALSE]
           ELSE /\ bark' = [c \in BarkCtors |->
                              IF bark[c].made THEN [bark[c] EXCEPT !.groups = @ \cup {group}]
                              ELSE bark[c]]
                /\ barkRunGroups' = Append(barkRunGroups, group)
                /\ barkLast' = [op |-> "registerRunGroup", ctor |-> 0, group |-> group,
                                event |-> 0, listener |-> 0,
                                ok |-> \E c \in BarkCtors : bark[c].made /\ group \notin bark[c].groups]
        /\ barkCalls' = barkCalls + 1
        /\ UNCHANGED barkDelivered
        /\ BarkFrame

\* Bark.register(ctor, listener, group), the listener a new function.
BarkRegister ==
    \E ctor \in BarkCtors, group \in BarkGroups :
        LET listener == RegisteredCount + 1
            instances  == BarkT(bark, ctor)
            found    == group \in instances[ctor].groups
        IN
        /\ barkCalls < MaxBarkCalls
        /\ listener \in BarkListeners
        /\ bark' = IF found
                   THEN [instances EXCEPT ![ctor].listeners[group] = Append(@, listener)]
                   ELSE instances
        /\ barkLast' = [op |-> "register", ctor |-> ctor, group |-> group,
                        event |-> 0, listener |-> listener, ok |-> found]
        /\ barkCalls' = barkCalls + 1
        /\ UNCHANGED <<barkRunGroups, barkDelivered>>
        /\ BarkFrame

\* Bark.emit(ctor, event), the event a new object.
BarkEmit ==
    \E ctor \in BarkCtors :
        LET event   == EmittedCount + 1
            instances == BarkT(bark, ctor)
        IN
        /\ barkCalls < MaxBarkCalls
        /\ event \in BarkEvents
        /\ bark' = [instances EXCEPT ![ctor].eventBus = Append(@, event)]
        /\ barkDelivered' =
            CallListeners(barkDelivered, instances[ctor].listeners["immediate"], <<event>>)
        /\ barkLast' = [op |-> "emit", ctor |-> ctor, group |-> "", event |-> event,
                        listener |-> 0, ok |-> TRUE]
        /\ barkCalls' = barkCalls + 1
        /\ UNCHANGED barkRunGroups
        /\ BarkFrame

\* static Bark.run(group)
BarkRun ==
    \E group \in BarkGroups :
        /\ barkCalls < MaxBarkCalls
        /\ barkDelivered' = StaticRun(barkDelivered, bark, barkRunGroups, group)
        /\ barkLast' = [op |-> "run", ctor |-> 0, group |-> group, event |-> 0,
                        listener |-> 0, ok |-> Includes(barkRunGroups, group)]
        /\ barkCalls' = barkCalls + 1
        /\ UNCHANGED <<bark, barkRunGroups>>
        /\ BarkFrame

BarkNext == BarkRegisterRunGroup \/ BarkRegister \/ BarkEmit \/ BarkRun

SpecBark == BarkInit /\ [][BarkNext]_vars

\* ----------------------------------------------------- SparseSet claims

\* The indices the caller holds in the set.
PresentIndices == {i \in Indices : present[i] # Undef}

\* C8: after each remove of a sequence of add / remove calls with distinct
\* indices, every index still present returns its original value via get, and
\* the removed index reports absent: has is false and get yields undefined.
C8_RemoveLeavesOthersAndReportsAbsent ==
    (ssLast.op = "remove" /\ ~reAdded) =>
        /\ \A j \in PresentIndices : SSGet(sset, j) = present[j]
        /\ ~SSHas(sset, ssLast.index)
        /\ SSGet(sset, ssLast.index) = Undef

\* C9: the dense arrays are compact (no holes, as long as the number of present
\* indices), sparse[i] is defined exactly for the present indices, and then it
\* is a dense slot that holds index i.
C9_StructureInvariant ==
    /\ Len(sset.denseValue) = Cardinality(PresentIndices)
    /\ Len(sset.denseIndex) = Cardinality(PresentIndices)
    /\ \A k \in 1 .. Len(sset.denseValue) : sset.denseValue[k] # Undef
    /\ \A k \in 1 .. Len(sset.denseIndex) : sset.denseIndex[k] # Undef
    /\ \A i \in Indices :
        /\ (sset.sparse[i] # Undef) <=> (i \in PresentIndices)
        /\ sset.sparse[i] # Undef =>
            /\ sset.sparse[i] < Len(sset.denseIndex)
            /\ At(sset.denseIndex, sset.sparse[i]) = i

\* --------------------------------------------------------- World claims

\* The live entity ids whose current signature satisfies query q.
LiveMatches(q, ents) ==
    {e \in LiveEntities(ents) : SatisfiedBy(QueryDefs[q], SignatureOrNull(ents, e))}

\* The elements of a list.
Range(list) == {list[k] : k \in 1 .. Len(list)}

\* The call just made, seen from the step that makes it.
Calling(op) == calls' # calls /\ wLast'.op = op

\* C1: for every Query instance that has been queried, whenever its dirty flag
\* is false its cached entity list holds exactly the live entity ids whose
\* current signature satisfies the query.
C1_CleanCacheIsExact ==
    \A q \in QueryNames :
        queryCacheDirty[q] = "clean" =>
            /\ Range(queryCache[q]) = LiveMatches(q, entities)
            /\ Len(queryCache[q]) = Cardinality(LiveMatches(q, entities))

\* C2: the query that follows addComponent or removeComponent on a live entity
\* invokes its callback for exactly the live entities whose signature after
\* the mutation satisfies the query, once each.
C2_QueryAfterMutationIsExact ==
    [][(/\ wLast.op \in {"addComponent", "removeComponent"}
        /\ IsLive(entities, wLast.entity)
        /\ Calling("query"))
       => /\ Range(wLast'.visited) = LiveMatches(wLast'.query, entities')
          /\ Len(wLast'.visited) = Cardinality(LiveMatches(wLast'.query, entities'))]_vars

\* C4: World.query with a correctly constructed Query completes without
\* throwing in every state reachable by create, addComponent, removeComponent
\* and remove.
C4_QueryNeverThrows == wLast.op = "query" => wLast.ok

\* C5: the store of type T has an entry for entity id e if and only if e is
\* alive and bit id(T) is set in e's signature.
C5_StoreEntryIffBitSet ==
    \A e \in EntityIds, t \in Types :
        SSHas(stores[t], e) <=> (IsLive(entities, e) /\ t \in SignatureOrNull(entities, e))

C7_RemoveDeadIsNoOp ==
    [][(Calling("remove") /\ ~IsLive(entities, wLast'.entity))
       => /\ ~wLast'.ok
          /\ UNCHANGED <<cemetery, entities, stores>>]_vars

\* C10: addComponent of a type the entity already has overwrites: a get for
\* the entity then returns the second value, and the store's dense array
\* length is unchanged by the second attach.
C10_SecondAttachOverwrites ==
    [][(Calling("addComponent")
        /\ wLast'.type \in SignatureOrNull(entities, wLast'.entity))
       => /\ SSGet(stores'[wLast'.type], wLast'.entity) = wLast'.value
          /\ Len(stores'[wLast'.type].denseValue) = Len(stores[wLast'.type].denseValue)]_vars

\* ------------------------------------------------- world.ts World claims

\* The live entity ids of the world.ts World whose signature satisfies q.
RunLiveMatches(q, ents) ==
    {e \in 0 .. Len(ents) - 1 :
        /\ EntityAt(ents, e).tag = "bitset"
        /\ SatisfiedBy(RunQueryDefs[q], EntityAt(ents, e).bits)}

\* C3: after any sequence of create and add calls, run(query, cb) invokes cb
\* for exactly the live entities whose current signature satisfies the query,
\* once each, also when the Query was run and cached before the latest add.
C3_RunVisitsCurrentMatches ==
    rLast.op = "run" =>
        /\ Range(rLast.visited) = RunLiveMatches(rLast.query, rEntities)
        /\ Len(rLast.visited) = Cardinality(RunLiveMatches(rLast.query, rEntities))

\* ------------------------------------------------ Component.removeAll claims

\* C11: Component.removeAll(entity), as called by World.remove, removes the
\* entity's entry from every store that holds one, and returns true if and
\* only if at least one entry was removed.
C11_RemoveAllClearsEveryStore ==
    [][Calling("remove")
       => /\ \A t \in Types : wLast'.entity \notin Range(stores'[t].denseIndex)
          /\ wLast'.ok <=> \E t \in Types : wLast'.entity \in Range(stores[t].denseIndex)]_vars

\* ------------------------------------- claims of the World with base entities

\* The signature World.get is to check: the compound signature of a live
\* entity, nothing for a dead one.
BaseSignature(entity) ==
    IF IsLive(bEntities, entity) THEN SignatureOrNull(bCompound, entity) ELSE {}

\* C12: World.get(types, entity) throws whenever the entity, dead entities
\* included, does not have every requested type according to its signature.
C12_GetThrowsOnMissingType ==
    (bLast.op = "get" /\ ~(Range(bLast.types) \subseteq BaseSignature(bLast.entity)))
        => ~bLast.ok

\* ------------------------------------------- World.removeComponent claims

\* C13: removeComponent(entity, T) on a live entity whose signature lacks T
\* returns false and leaves every signature and every component store
\* unchanged.
C13_RemoveMissingComponentIsNoOp ==
    [][(/\ Calling("removeComponent")
        /\ IsLive(entities, wLast'.entity)
        /\ wLast'.type \notin SignatureOrNull(entities, wLast'.entity))
       => /\ ~wLast'.ok
          /\ UNCHANGED <<entities, stores>>]_vars

\* ------------------------------------------------- QueryDefinition claims

\* C14: after any sequence of builder calls, never both withOnly and one of
\* withAll / withNone / withOne / withSome are active on a query: the call that
\* would mix them throws.
C14_OnlyExcludesOtherFilters ==
    ~(/\ qb.withOnly # {}
      /\ (qb.withAll # {} \/ qb.withNone # {} \/ qb.withOne # {} \/ qb.withSome # {}))

\* The signatures a query is asked about.
Signatures == SUBSET Types

\* The ordered evaluation: only first, then none, one, some, and all last.
OrderedEvaluation(q, S) ==
    CASE q.withOnly # {} -> S = q.withOnly
      [] OTHER ->
            /\ \A t \in q.withNone : t \notin S
            /\ q.withOne # {} => \E t \in q.withOne : q.withOne \cap S = {t}
            /\ q.withSome # {} => \E t \in q.withSome : t \in S
            /\ \A t \in q.withAll : t \in S

SetIndices(bs) == {i \in bs.bits : B4Get(bs, i)}

\* C16: after any sequence of set, and, or, xor, not and clear calls on a
\* Bitset, its maintained counter (setCount) equals the number of indices i
\* for which get(i) is true.
C16_CounterEqualsSetBits ==
    \A n \in BitsetNames : b4[n].setCount = Cardinality(SetIndices(b4[n]))

\* C17: after set(i, true) get(i) is true, after set(i, false) get(i) is
\* false, and get(j) is unchanged for every other j, growth included; get on
\* an index beyond the capacity returns false.
C17_PointUpdate ==
    [][/\ b6Last'.op = "set"
          => LET n == b6Last'.recv
                 i == b6Last'.index
             IN  /\ B6Get(b6'[n], i) = b6Last'.value
                 /\ \A j \in FlagIndices \ {i} : B6Get(b6'[n], j) = B6Get(b6[n], j)
       /\ (b6Last'.op = "get" /\ b6Last'.index >= b6[b6Last'.recv].byteLength)
          => ~b6Last'.result]_vars

\* C18: in the pooled Bitset, set(index, value) on one bitset never changes
\* get(j) of any other Bitset instance, Bitset.null included, for every
\* non-negative index.
C18_SetLeavesOtherBitsetsAlone ==
    [][(p5Calls' # p5Calls /\ p5Last'.op = "set")
       => \A other \in Allocated \ {p5Last'.memIndex} :
            \A j \in {i \in PoolIndices : i < FlagCount} :
                P5Get(memArray', other, j) = P5Get(memArray, other, j)]_vars

\* C19: two bitsets are equals() exactly when their sets of set-bit indices
\* are the same, whatever their sizes and capacities; A.equals(A) for every A.
C19_EqualsIsLogicalEquality ==
    b4Last.op = "equals"
    => (b4Last.result <=> SetIndices(b4[b4Last.recv]) = SetIndices(b4[b4Last.arg]))

\* The bits of a bitset as an operand: a bit beyond its size counts as 0.
LogicalBits(bs) == {i \in SetIndices(bs) : i < bs.size}

\* C20: for bitsets A and B of different sizes, A.and(B), A.or(B) and
\* A.xor(B) leave A with bit i equal to (A_i op B_i) for every i, bits beyond
\* either operand's size counting as 0; A grows to the size of the larger
\* operand and its counter equals the population count of the result.
C20_BinaryOpsZeroPad ==
    [][(/\ b4Calls' # b4Calls
        /\ b4Last'.op \in {"and", "or", "xor"}
        /\ b4[b4Last'.recv].size # b4[b4Last'.arg].size)
       => LET A      == b4[b4Last'.recv]
              B      == b4[b4Last'.arg]
              result == b4'[b4Last'.recv]
          IN  /\ SetIndices(result) = ByteOp(b4Last'.op, LogicalBits(A), LogicalBits(B))
              /\ result.size = Max(A.size, B.size)
              /\ result.setCount = Cardinality(SetIndices(result))]_vars

\* C21: not() flips exactly the bits at indices 0 .. size - 1 of the receiver
\* and leaves every bit at an index >= size reading false.
C21_NotFlipsUpToSize ==
    [][(b4Calls' # b4Calls /\ b4Last'.op = "not")
       => LET before == b4[b4Last'.recv]
              after  == b4'[b4Last'.recv]
          IN  /\ \A i \in 0 .. before.size - 1 : B4Get(after, i) = ~B4Get(before, i)
              /\ \A i \in SetIndices(after) : i < before.size]_vars

\* ------------------------------------------------------ registry claims

\* C24: Component.T(type) called any number of times for the same type
\* descriptor returns the same Component, with the same id and the same
\* backing store, and registers the type at most once; the first access of
\* an unregistered type registers it.
C24_TIsIdempotent ==
    [][regLast'.op = "T"
       => LET type == regLast'.type IN
          /\ statics'[type] = regLast'.component
          /\ regLast'.component # NoComponent
          /\ statics[type] # NoComponent
             => /\ regLast'.component = statics[type]
                /\ UNCHANGED <<statics, idMap, idCounter, created>>
          /\ statics[type] = NoComponent
             => /\ created' = created + 1
                /\ \A other \in TypeDescs \ {type} : statics'[other] = statics[other]]_vars

\* C24 witness: T was called for a type that was registered already and
\* returned the registered Component.
C24_Witness ==
    /\ regLast.op = "T" /\ regLast.existed
    /\ regLast.component = statics[regLast.type]
    /\ created = 1

\* C25: no two distinct component types have the same id, also after
\* dispose(), so bitsetFromTypes of two distinct types is never equal.
C25_IdsAreUnique ==
    \A t \in TypeDescs : \A u \in TypeDescs \ {t} :
        (idMap[t] # Undef /\ idMap[u] # Undef) => RegSignature(t) # RegSignature(u)

\* ------------------------------------------------- pooled Bitset claims

\* C22: for every bitset A, A.isSupersetOf(Bitset.null) and
\* Bitset.null.isSubsetOf(A) are true.
C22_NullIsSubsetOfEverything ==
    /\ (p5Last.op = "isSupersetOf" /\ p5Last.other = 0) => p5Last.result
    /\ (p5Last.op = "isSubsetOf" /\ p5Last.memIndex = 0) => p5Last.result

\* C23: a static combinator called with no argument throws instead of
\* returning a bitset.
C23_ZeroArgumentsThrow ==
    (p5Last.op \in {"Bitset.and", "Bitset.or", "Bitset.xor"} /\ p5Last.argc = 0)
    => p5Last.threw

\* ------------------------------------------- sparse-set variant claims

\* C26: a SparseSet, a SparseBitSet and a SparseTagSet that received the
\* same add and remove calls agree on has(i) for every index, on the value
\* the last add returned and on whether the last remove signalled absence.
C26_VariantsAgree ==
    /\ \A i \in Indices :
          /\ SSHas(vSet, i) = MapHas(vBit, i)
          /\ MapHas(vBit, i) = TagHas(vTag, i)
    /\ vLast.op = "add" =>
          /\ vLast.added[1] = vLast.added[2]
          /\ vLast.added[2] = vLast.added[3]
    /\ vLast.op = "remove" =>
          /\ (vLast.removed[1] = Undef) = (vLast.removed[2] = Undef)
          /\ (vLast.removed[2] = Undef) = (vLast.removed[3] = Undef)

\* C27: in the Bitset-backed SparseBitSet, while no index was added twice,
\* get(i) of every index still held returns the boolean it was added with,
\* and an index that was added and removed has(i) false and get(i) null.
C27_BitSetKeepsValues ==
    ~sbsReAdded =>
        \A i \in Indices :
            /\ sbsPresent[i] # Undef => SbsGet(sbs, i) = sbsPresent[i]
            /\ (i \in sbsAdded /\ sbsPresent[i] = Undef) =>
                  (~SbsHas(sbs, i) /\ SbsGet(sbs, i) = JsNull)

\* C28: a failed SparseSet operation changes nothing: add on an index the
\* caller holds returns false, remove on an index the caller does not hold
\* returns the absent signal, and both leave the sparse and dense arrays as
\* they were.
C28_FailedOpsLeaveStateAlone ==
    [][/\ (ssLast'.op = "add" /\ present[ssLast'.index] # Undef)
            => (~ssLast'.ok /\ sset' = sset)
       /\ (ssLast'.op = "remove" /\ present[ssLast'.index] = Undef)
            => (~ssLast'.ok /\ sset' = sset)]_vars

\* C29: Component.get on an index that holds no component of the type
\* returns null, and what it returns otherwise is a wrapper around a stored
\* value, never around undefined.
C29_GetSignalsAbsence ==
    ssLast.op = "get" =>
        /\ present[ssLast.index] = Undef => ~ssLast.ok
        /\ ssLast.ok => ssLast.val # Undef

\* ------------------------------------------------ batch retrieval claims

\* The value the store holds for an entity, looked up on the dense side:
\* the value beside the entity's id, undefined when the id is not there.
StoredFor(s, entity) ==
    IF \E k \in 1 .. Len(s.denseIndex) : s.denseIndex[k] = entity
    THEN s.denseValue[CHOOSE k \in 1 .. Len(s.denseIndex) : s.denseIndex[k] = entity]
    ELSE Undef

\* C30: for the entity list E (length n) and the parameter types T (length m)
\* of a run, getQueryComponents returns R of length n*m with R[i*m + j] the
\* value stored for E[i] in the store of T[j], and the callback of E[i]
\* receives E[i] and, in accessor j, the entity E[i] and the data R[i*m + j].
C30_BatchIsRowMajor ==
    rLast.op = "run" =>
        LET E == rLast.visited
            T == RunQueryDefs[rLast.query].paramTypes
            n == Len(E)
            m == Len(T)
            R == rLast.components
        IN  /\ Len(R) = n * m
            /\ \A i \in 0 .. n - 1, j \in 0 .. m - 1 :
                  At(R, i * m + j) = StoredFor(rStores[T[j + 1]], E[i + 1])
            /\ Len(rLast.handed) = n
            /\ \A i \in 0 .. n - 1 :
                  /\ rLast.handed[i + 1].entity = E[i + 1]
                  /\ Len(rLast.handed[i + 1].accessors) = m
                  /\ \A j \in 0 .. m - 1 :
                        LET accessor == rLast.handed[i + 1].accessors[j + 1] IN
                        /\ accessor.entity = E[i + 1]
                        /\ accessor.component = T[j + 1]
                        /\ accessor.data = At(R, i * m + j)
                        /\ accessor.data = StoredFor(rStores[T[j + 1]], E[i + 1])

\* A run over two entities and two parameter types in which the second value
\* of the first row differs from the first value of the second row.
C30_Witness ==
    /\ rLast.op = "run"
    /\ Len(rLast.visited) = 2
    /\ Len(RunQueryDefs[rLast.query].paramTypes) = 2
    /\ \A k \in 0 .. 3 : At(rLast.components, k) # Undef
    /\ At(rLast.components, 1) # At(rLast.components, 2)
    /\ Len(rLast.handed) = 2

\* ----------------------------------------------------- World.update claims

\* The positions of the events of a kind in a trace.
EventsOf(trace, kind) == {k \in 1 .. Len(trace) : trace[k].kind = kind}

\* C31: update() refreshes every query that was dirty when it was called,
\* each once, before it runs any system; it then runs every registered
\* system exactly once, a system of lower runIndex before one of higher, in
\* whatever order and however often the systems were registered.
C31_UpdateRefreshesThenRunsInOrder ==
    sysLast.op = "update" =>
        LET trace     == sysLast.trace
            refreshes == EventsOf(trace, "refresh")
            runs      == EventsOf(trace, "run")
        IN  /\ \A r \in refreshes, s \in runs : r < s
            /\ {trace[k].def : k \in refreshes} = sysLast.dirtyBefore
            /\ Cardinality(refreshes) = Cardinality(sysLast.dirtyBefore)
            /\ {trace[k].system : k \in runs} = sysRegistered
            /\ Cardinality(runs) = Cardinality(sysRegistered)
            /\ \A j \in runs, k \in runs :
                  j < k => RunIndex(trace[j].system) <= RunIndex(trace[k].system)

\* An update that refreshed a query and ran three systems of which one was
\* registered twice, the one of the highest runIndex registered first.
C31_Witness ==
    /\ sysLast.op = "update"
    /\ EventsOf(sysLast.trace, "refresh") # {}
    /\ Cardinality(EventsOf(sysLast.trace, "run")) >= 2
    /\ sysTwice
    /\ 4 \in sysRegistered /\ 2 \in sysRegistered

\* ------------------------------------------- World.create and World.get

\* The types of a set as the argument list of withOnly and of World.get.
TypeList(types) == SelectSeq(<<TypeA, TypeB>>, LAMBDA t : t \in types)

\* new QueryDefinition().withOnly(...types)
WithOnlyOf(types) == QueryOf({}, {}, {}, {}, types, TypeList(types))

\* World.entityCount(def) for a definition not cached yet throws: World.get
\* throws for an entity of the refreshed list.
EntityCountThrows(ents, def) ==
    Len(Visited(ents, def.paramTypes, RefreshQuery(def, ents))) # Len(RefreshQuery(def, ents))

\* World.entityCount(def) for a definition not cached yet: the number of
\* callbacks of the query.
EntityCount(ents, def) == Len(Visited(ents, def.paramTypes, RefreshQuery(def, ents)))

\* World.get(types, entity): the values of the wrappers it returns, in the
\* order of the types.
WorldGet(st, types, entity) ==
    [k \in 1 .. Len(types) |-> SSGetUnchecked(st[types[k]], entity)]

\* C32: after create(c1, ..., ck), k >= 1, has made the only live entity of
\* the world, entityCount of a withOnly query over the types of c1..ck is 1
\* and get of those types yields the supplied values, in the order asked.
C32_CreatedEntityIsAccessible ==
    (wLast.op = "create" /\ wLast.types # {} /\ LiveEntities(entities) = {wLast.entity}) =>
        /\ ~EntityCountThrows(entities, WithOnlyOf(wLast.types))
        /\ EntityCount(entities, WithOnlyOf(wLast.types)) = 1
        /\ ~GetThrows(entities, TypeList(wLast.types), wLast.entity)
        /\ WorldGet(stores, TypeList(wLast.types), wLast.entity)
              = [k \in 1 .. Cardinality(wLast.types) |-> wLast.value]

\* C33: in every state reached by create and remove calls the free-list
\* holds no id twice and no id that is alive, so that create, which pops
\* the free-list, never returns an id that is alive.
C33_FreeListIsSound ==
    /\ \A j, k \in 1 .. Len(cemetery) : j # k => cemetery[j] # cemetery[k]
    /\ \A k \in 1 .. Len(cemetery) : ~IsLive(entities, cemetery[k])

\* C34: a create(c1, ..., ck) that reuses a removed id leaves under that id
\* exactly the supplied values: get of the types of c1..ck returns them and
\* no store of another type holds an entry for the id.
C34_ReusedIdHoldsOnlyNewValues ==
    [][(Calling("create") /\ Len(cemetery) > 0)
       => /\ \A t \in wLast'.types :
                SSGetUnchecked(stores'[t], wLast'.entity) = wLast'.value
          /\ \A t \in Types \ wLast'.types : ~SSHas(stores'[t], wLast'.entity)]_vars

\* ---------------------------------- removal in the World with base entities

\* C35: in the World with base entities a removed id that create has not
\* handed out again is not visited: a query, entityQuery or entityCount call
\* invokes its callback only for ids that are alive.
C35_RemovedEntityIsNotVisited ==
    bLast.op \in {"query", "entityQuery"} =>
        \A k \in 1 .. Len(bLast.result) :
            ~(/\ ~IsLive(bEntities, bLast.result[k])
              /\ \E c \in 1 .. Len(bCemetery) : bCemetery[c] = bLast.result[k])

\* ------------------------------------------- queries that mutate the world

\* C36: a World.query whose callback removes an entity the query lists later,
\* or a queried component of one, completes without throwing, and the
\* callback was invoked for no entity the call removed or stripped.
C36_MutatingQueryCompletes ==
    wLast.op = "queryMutating" =>
        /\ wLast.ok
        /\ \A k \in 2 .. Len(wLast.visited) : wLast.visited[k] # wLast.entity

\* ------------------------------------------------------- Component.mutate

\* C37: Component.mutate(entity, f) on an entity that has the component calls
\* f with the stored value, whatever that value is, and the value stored
\* afterwards is what f returned unless f returned undefined; on an entity
\* without the component f is not called and nothing is stored.
C37_MutateReplacesStoredValue ==
    [][(mLast'.op = "mutate" /\ mCalls' = mCalls + 1) =>
        IF mPresent[mLast'.entity] # Undef
        THEN /\ mLast'.called
             /\ mLast'.arg = mPresent[mLast'.entity]
             /\ MutGet(mStore', mLast'.entity) =
                    (IF mLast'.ret # Undef THEN mLast'.ret ELSE mPresent[mLast'.entity])
        ELSE /\ ~mLast'.called
             /\ mStore' = mStore]_vars

\* ------------------------------------------------------------------- Bark

\* C38: over any sequence of Bark.run calls no listener is called with the
\* same event more than once, and when an event is emitted every immediate
\* listener of its class has been called with it exactly once.
C38_EventsDeliveredOnce ==
    /\ \A pair \in BarkListeners \X BarkEvents : barkDelivered[pair] <= 1
    /\ barkLast.op = "emit" =>
        \A l \in BarkListeners :
            Occurrences(bark[barkLast.ctor].listeners["immediate"], l) > 0
                => barkDelivered[<<l, barkLast.event>>] = 1


====
